---- MODULE Spec2Model ----
(***************************************************************************)
(* State-machine model of the spatial-memer pose store and BEV map render  *)
(* (src/src/spatial_context.py) together with the SE(3) helpers it calls   *)
(* (src/src/transforms.py) and the kinematics provider (src/src/pose.py).  *)
(*                                                                         *)
(* A pose is a matrix: a sequence of rows, each a sequence of entries.     *)
(* Entries are integers (metres), plus one non-finite value NaN that       *)
(* propagates through arithmetic as IEEE NaN does.  With integer entries   *)
(* the 1e-3 tolerance of np.isclose is exact equality.                     *)
(***************************************************************************)
EXTENDS Integers, Sequences, FiniteSets, TLC

(***************************************************************************)
(* Bounds of the model.                                                    *)
(***************************************************************************)
\* number of frame ids the counter may hand out in Spec / SpecConc
MaxFrames == 3
\* longest (id, image) list passed to watermark_keyframes
MaxWmLen == 2
\* frames beyond the palette length that SpecPalette may allocate
PaletteExtra == 1
\* number of frames SpecLayout may allocate
LayoutFrames == 7
\* number of far-away frames in SpecLayout
MaxFar == 1
\* number of add_keyframe and update calls in SpecMemory
MemoryCalls == 2
\* number of frames SpecPlace may allocate
PlaceFrames == 3

(***************************************************************************)
(* Floating-point entries.                                                 *)
(***************************************************************************)
\* the non-finite entry (float('nan')); any integer outside the range of
\* the finite entries used by the model
NaN == 1000000

\* np.isclose(a, b, atol=1e-3): false whenever an operand is NaN
IsClose(a, b) == a # NaN /\ b # NaN /\ a = b

(***************************************************************************)
(* Matrices.                                                               *)
(***************************************************************************)
\* np.eye(4)
Eye4 == << <<1, 0, 0, 0>>, <<0, 1, 0, 0>>, <<0, 0, 1, 0>>, <<0, 0, 0, 1>> >>

\* t.shape == (4, 4)
IsShape44(t) == Len(t) = 4 /\ \A i \in 1..4 : Len(t[i]) = 4

\* one entry of a @ b for 4x4 operands: a sum of products, NaN as soon as
\* one operand is NaN (0 * NaN is NaN too)
Dot4(a, b, i, j) ==
    IF \E k \in 1..4 : a[i][k] = NaN \/ b[k][j] = NaN THEN NaN
    ELSE a[i][1] * b[1][j] + a[i][2] * b[2][j] + a[i][3] * b[3][j] + a[i][4] * b[4][j]

\* a @ b for 4x4 operands
MatMul(a, b) ==
    << <<Dot4(a, b, 1, 1), Dot4(a, b, 1, 2), Dot4(a, b, 1, 3), Dot4(a, b, 1, 4)>>,
       <<Dot4(a, b, 2, 1), Dot4(a, b, 2, 2), Dot4(a, b, 2, 3), Dot4(a, b, 2, 4)>>,
       <<Dot4(a, b, 3, 1), Dot4(a, b, 3, 2), Dot4(a, b, 3, 3), Dot4(a, b, 3, 4)>>,
       <<Dot4(a, b, 4, 1), Dot4(a, b, 4, 2), Dot4(a, b, 4, 3), Dot4(a, b, 4, 4)>> >>

\* t[:3, :3]
Rot(t) ==
    << <<t[1][1], t[1][2], t[1][3]>>,
       <<t[2][1], t[2][2], t[2][3]>>,
       <<t[3][1], t[3][2], t[3][3]>> >>

\* m.T for a 3x3 block
Transpose3(m) ==
    << <<m[1][1], m[2][1], m[3][1]>>,
       <<m[1][2], m[2][2], m[3][2]>>,
       <<m[1][3], m[2][3], m[3][3]>> >>

\* one entry of the product of two 3x3 blocks
Dot3(a, b, i, j) ==
    IF \E k \in 1..3 : a[i][k] = NaN \/ b[k][j] = NaN THEN NaN
    ELSE a[i][1] * b[1][j] + a[i][2] * b[2][j] + a[i][3] * b[3][j]

\* np.matmul of two 3x3 blocks
MatMul3(a, b) ==
    << <<Dot3(a, b, 1, 1), Dot3(a, b, 1, 2), Dot3(a, b, 1, 3)>>,
       <<Dot3(a, b, 2, 1), Dot3(a, b, 2, 2), Dot3(a, b, 2, 3)>>,
       <<Dot3(a, b, 3, 1), Dot3(a, b, 3, 2), Dot3(a, b, 3, 3)>> >>

\* np.linalg.det of a 3x3 block
Det3(m) ==
    IF \E i \in 1..3 : \E j \in 1..3 : m[i][j] = NaN THEN NaN
    ELSE m[1][1] * (m[2][2] * m[3][3] - m[2][3] * m[3][2])
         - m[1][2] * (m[2][1] * m[3][3] - m[2][3] * m[3][1])
         + m[1][3] * (m[2][1] * m[3][2] - m[2][2] * m[3][1])

\* np.isclose(np.eye(3), m).all()
IsEye3(m) == \A i \in 1..3 : \A j \in 1..3 : IsClose(IF i = j THEN 1 ELSE 0, m[i][j])

\* the checks of transform_is_valid: shape, RtR = I, RRt = I, det = 1, last row (0,0,0,1).
\* np.isreal is true of every float, NaN included, so real_check never fails.
ComputeIsValid(t) ==
    IF ~IsShape44(t) THEN FALSE
    ELSE \E R \in {Rot(t)} : \E Rt \in {Transpose3(R)} :
         \E rtr \in {MatMul3(Rt, R)} : \E rrt \in {MatMul3(R, Rt)} :
         LET real_check == TRUE
             inverse_check == IsEye3(rtr) /\ IsEye3(rrt)
             det_check == IsClose(Det3(R), 1)
             last_row_check == /\ \A j \in 1..3 : IsClose(t[4][j], 0)
                               /\ IsClose(t[4][4], 1)
         IN real_check /\ inverse_check /\ det_check /\ last_row_check

\* one entry of p_inv = -R_inv @ p, R_inv = R.T
PInv(t, i) ==
    IF \E k \in 1..3 : t[k][i] = NaN \/ t[k][4] = NaN THEN NaN
    ELSE 0 - (t[1][i] * t[1][4] + t[2][i] * t[2][4] + t[3][i] * t[3][4])

\* transform_inverse on a valid transform: identity(4) with R.T and p_inv set
InverseOf(t) ==
    << <<t[1][1], t[2][1], t[3][1], PInv(t, 1)>>,
       <<t[1][2], t[2][2], t[3][2], PInv(t, 2)>>,
       <<t[1][3], t[2][3], t[3][3], PInv(t, 3)>>,
       <<0, 0, 0, 1>> >>

(***************************************************************************)
(* Inputs.                                                                 *)
(***************************************************************************)
\* a robot_pose argument left at its default None
None == << >>

\* joint vectors: one of shape (7,), one of shape (6,)
QHome == <<0, 0, 0, 0, 0, 0, 0>>
QShort == <<0, 0, 0, 0, 0, 0>>
RobotStates == {QHome, QShort}

\* base poses handed to add_frame: none, or a reflection (not a rigid transform);
\* RotZ0 is a quarter turn about z
RotZ0 == << <<0, -1, 0, 0>>, <<1, 0, 0, 0>>, <<0, 0, 1, 0>>, <<0, 0, 0, 1>> >>
Refl0 == << <<1, 0, 0, 0>>, <<0, 1, 0, 0>>, <<0, 0, -1, 0>>, <<0, 0, 0, 1>> >>
BasePoses == {None, Refl0}

\* poses handed to add_frame_with_pose: TransX and RotZT are rigid transforms,
\* ReflT has determinant -1, NaNT has a non-finite translation
TransX == << <<1, 0, 0, 1>>, <<0, 1, 0, 0>>, <<0, 0, 1, 0>>, <<0, 0, 0, 1>> >>
RotZT == << <<0, -1, 0, 0>>, <<1, 0, 0, 1>>, <<0, 0, 1, 0>>, <<0, 0, 0, 1>> >>
ReflT == << <<1, 0, 0, 1>>, <<0, 1, 0, 0>>, <<0, 0, -1, 0>>, <<0, 0, 0, 1>> >>
NaNT == << <<1, 0, 0, NaN>>, <<0, 1, 0, 0>>, <<0, 0, 1, 0>>, <<0, 0, 0, 1>> >>
PosePool == {TransX, ReflT, NaNT}

\* poses along the x axis: identity rotation, translation (x, 0, 0)
AtX(x) == << <<1, 0, 0, x>>, <<0, 1, 0, 0>>, <<0, 0, 1, 0>>, <<0, 0, 0, 1>> >>

\* keyframes at the origin, near it and far from it
LayoutPool == {AtX(0), AtX(1), AtX(100)}

\* The matrices the inputs above can put in front of transform_is_valid:
\* the inputs, their products and the relative poses between them.
InputPoses == PosePool \cup {RotZT, Eye4, Refl0, RotZ0} \cup LayoutPool
KnownPoses == InputPoses \cup {MatMul(InverseOf(a), b) : a, b \in InputPoses}

\* ComputeIsValid over KnownPoses, evaluated once
ValidKnownPoses == {t \in KnownPoses : ComputeIsValid(t)}

\* transform_is_valid(t, tolerance=1e-3)
transform_is_valid(t) ==
    IF t \in KnownPoses THEN t \in ValidKnownPoses ELSE ComputeIsValid(t)

\* transform_inverse: raises ValueError on an invalid transform
transform_inverse(t) ==
    IF ~transform_is_valid(t) THEN [err |-> "ValueError", val |-> Eye4]
    ELSE [err |-> "none", val |-> InverseOf(t)]

\* compute_relative_pose(a, b) = inverse(a) @ b; raises if either is invalid
compute_relative_pose(a, b) ==
    IF ~transform_is_valid(a) \/ ~transform_is_valid(b)
    THEN [err |-> "ValueError", val |-> Eye4]
    ELSE CHOOSE res \in {[err |-> "none", val |-> MatMul(a_inv.val, b)]
                         : a_inv \in {transform_inverse(a)}} : TRUE

\* extract_displacement(T) = T[:-1, -1]; raises if T is invalid
extract_displacement(T) ==
    IF ~transform_is_valid(T) THEN [err |-> "ValueError", val |-> <<0, 0, 0>>]
    ELSE [err |-> "none", val |-> <<T[1][4], T[2][4], T[3][4]>>]

\* PoseUtils.forward_kinematics: rejects a vector that is not of shape (7,);
\* otherwise T = eye(4) with the end-effector rotation and position filled in
\* (the home configuration puts the end effector one metre along x)
forward_kinematics(robot_state) ==
    IF Len(robot_state) # 7 THEN [err |-> "ValueError", val |-> Eye4]
    ELSE [err |-> "none", val |-> TransX]

\* SpatialContext._compute_pose
compute_pose(robot_state, robot_pose) ==
    LET base == IF robot_pose = None THEN Eye4 ELSE robot_pose
        ee == forward_kinematics(robot_state)
    IN IF ee.err # "none" THEN ee
       ELSE [err |-> "none", val |-> MatMul(base, ee.val)]

(***************************************************************************)
(* Python dict with insertion order (keyframe_poses): a sequence of         *)
(* (id, pose) entries.                                                     *)
(***************************************************************************)
\* list(d.keys())
DictKeys(d) == [i \in 1..Len(d) |-> d[i].id]

\* set of the keys of d
KeySet(d) == {d[i].id : i \in 1..Len(d)}

\* d[k] for a key that is present
DictGet(d, k) == d[CHOOSE i \in 1..Len(d) : d[i].id = k].pose

\* faulty variant of DictSet: a new key goes first
DictSet_Front(d, k, v) ==
    IF k \in KeySet(d)
    THEN [i \in 1..Len(d) |-> IF d[i].id = k THEN [id |-> k, pose |-> v] ELSE d[i]]
    ELSE <<[id |-> k, pose |-> v]>> \o d

\* d[k] = v: an existing key keeps its place, a new key goes last
DictSet(d, k, v) ==
    IF k \in KeySet(d)
    THEN [i \in 1..Len(d) |-> IF d[i].id = k THEN [id |-> k, pose |-> v] ELSE d[i]]
    ELSE Append(d, [id |-> k, pose |-> v])

\* d.pop(k, None)
DictPop(d, k) == SelectSeq(d, LAMBDA e : e.id # k)

\* position of key k in d (1-based), 0 when absent
DictIndex(d, k) == IF k \in KeySet(d) THEN CHOOSE i \in 1..Len(d) : d[i].id = k ELSE 0

\* max of a non-empty set of integers
SetMax(S) == CHOOSE m \in S : \A x \in S : x <= m

(***************************************************************************)
(* State.                                                                  *)
(***************************************************************************)
VARIABLES
    all_poses,       \* self.all_poses: frame id -> pose
    keyframe_poses,  \* self.keyframe_poses: insertion-ordered (id, pose) entries
    frame_count,     \* self._frame_count
    returned,        \* history: the frame ids returned to callers, in order
    last,            \* the call that completed last: its arguments and how it ended
    out,             \* what that call returned; for generate_map also the ids
                     \* its layout had positions for (laid_out)
    rpc,             \* position of a running generate_map
    r,               \* locals of a running generate_map
    cfg,             \* self.map_config and self.avoid_overlap
    mem              \* the fields of a SpatialMemoryModule (filippo/spatial_memory.py)

vars == <<all_poses, keyframe_poses, frame_count, returned, last, out, rpc, r, cfg, mem>>

store == <<all_poses, keyframe_poses, frame_count>>

\* no scale computed yet
NoScale == [num |-> 0, den2 |-> 1]

NoOut == [pose |-> << >>, colors |-> << >>, placed |-> << >>, laid_out |-> << >>,
          unresolved |-> << >>, raw |-> << >>, circles |-> << >>, scale |-> NoScale,
          outlier_ids |-> {},
          images |-> << >>, caller |-> << >>, ret |-> << >>]

NoLocals == [current_pose |-> << >>, positions |-> << >>, scale |-> NoScale,
             outlier_ids |-> {}, image |-> FALSE, placed_circles |-> << >>,
             keyframe_ids |-> << >>, i |-> 0, colors |-> << >>, placed |-> << >>,
             unresolved |-> << >>, raw |-> << >>]

Call(op, fid, status) ==
    [op |-> op, fid |-> fid, status |-> status, was_keyframe |-> FALSE, canvas |-> FALSE,
     list |-> << >>]

\* SpatialMemoryModule.__init__(room_threshold=2.0); clock counts the
\* readings of time.time(), which stand for the timestamps
NoMemory ==
    [keyframes |-> << >>, pose_history |-> << >>, room_threshold |-> 2,
     room_counter |-> 0, room_centers |-> << >>, clock |-> 0]

\* DEFAULT_MAP_CONFIG = MapConfig(), and avoid_overlap = True
DefaultConfig ==
    [image_size |-> 512, border_size |-> 4, outlier_std_threshold |-> 2,
     keyframe_radius |-> 16, robot_radius |-> 18, avoid_overlap |-> TRUE]

\* SpatialContext.__init__ with a configuration
InitWith(config) ==
    /\ all_poses = << >>
    /\ keyframe_poses = << >>
    /\ frame_count = 0
    /\ returned = << >>
    /\ last = Call("init", -1, "ok")
    /\ out = NoOut
    /\ rpc = "idle"
    /\ r = NoLocals
    /\ cfg = config
    /\ mem = NoMemory

\* SpatialContext.__init__ with its defaults
Init == InitWith(DefaultConfig)

\* self.all_poses[frame_id] = pose
StorePose(frame_id, pose) ==
    [k \in (DOMAIN all_poses) \cup {frame_id} |-> IF k = frame_id THEN pose ELSE all_poses[k]]

(***************************************************************************)
(* Pose store operations.                                                  *)
(***************************************************************************)
\* add_frame: the counter is advanced before the pose is computed, so a
\* kinematics failure leaves the counter advanced and nothing stored
AddFrame(robot_state, robot_pose) ==
    LET frame_id == frame_count
        pose == compute_pose(robot_state, robot_pose)
    IN /\ frame_count' = frame_count + 1
       /\ IF pose.err # "none"
          THEN /\ all_poses' = all_poses
               /\ returned' = returned
               /\ last' = Call("add_frame", -1, pose.err)
          ELSE /\ all_poses' = StorePose(frame_id, pose.val)
               /\ returned' = Append(returned, frame_id)
               /\ last' = Call("add_frame", frame_id, "ok")
       /\ out' = NoOut
       /\ UNCHANGED <<keyframe_poses, rpc, r, cfg, mem>>

\* faulty variant of add_frame_with_pose: the counter is not advanced
AddFrameWithPose_NoAdvance(pose) ==
    LET frame_id == frame_count
    IN /\ frame_count' = frame_count
       /\ all_poses' = StorePose(frame_id, pose)
       /\ returned' = Append(returned, frame_id)
       /\ last' = Call("add_frame_with_pose", frame_id, "ok")
       /\ out' = NoOut
       /\ UNCHANGED <<keyframe_poses, rpc, r, cfg, mem>>

\* add_frame_with_pose: stores the caller's matrix as it is
AddFrameWithPose(pose) ==
    LET frame_id == frame_count
    IN /\ frame_count' = frame_count + 1
       /\ all_poses' = StorePose(frame_id, pose)
       /\ returned' = Append(returned, frame_id)
       /\ last' = Call("add_frame_with_pose", frame_id, "ok")
       /\ out' = NoOut
       /\ UNCHANGED <<keyframe_poses, rpc, r, cfg, mem>>

\* faulty variant of promote_to_keyframe: no membership test, an unknown id
\* is stored with no pose (all_poses.get)
PromoteToKeyframe_NoCheck(frame_id) ==
    /\ keyframe_poses' = DictSet(keyframe_poses, frame_id,
                                 IF frame_id \in DOMAIN all_poses THEN all_poses[frame_id] ELSE None)
    /\ last' = [Call("promote_to_keyframe", frame_id, "ok")
                   EXCEPT !.was_keyframe = frame_id \in KeySet(keyframe_poses)]
    /\ out' = NoOut
    /\ UNCHANGED <<all_poses, frame_count, returned, rpc, r, cfg, mem>>

\* faulty variant of promote_to_keyframe: a keyframe promoted again is
\* taken out and inserted anew, so it moves to the end
PromoteToKeyframe_Reinsert(frame_id) ==
    /\ IF frame_id \notin DOMAIN all_poses
       THEN /\ keyframe_poses' = keyframe_poses
            /\ last' = Call("promote_to_keyframe", frame_id, "ValueError")
       ELSE /\ keyframe_poses' = DictSet(DictPop(keyframe_poses, frame_id), frame_id,
                                         all_poses[frame_id])
            /\ last' = [Call("promote_to_keyframe", frame_id, "ok")
                           EXCEPT !.was_keyframe = frame_id \in KeySet(keyframe_poses)]
    /\ out' = NoOut
    /\ UNCHANGED <<all_poses, frame_count, returned, rpc, r, cfg, mem>>

\* promote_to_keyframe
PromoteToKeyframe(frame_id) ==
    /\ IF frame_id \notin DOMAIN all_poses
       THEN /\ keyframe_poses' = keyframe_poses
            /\ last' = Call("promote_to_keyframe", frame_id, "ValueError")
       ELSE /\ keyframe_poses' = DictSet(keyframe_poses, frame_id, all_poses[frame_id])
            /\ last' = [Call("promote_to_keyframe", frame_id, "ok")
                           EXCEPT !.was_keyframe = frame_id \in KeySet(keyframe_poses)]
    /\ out' = NoOut
    /\ UNCHANGED <<all_poses, frame_count, returned, rpc, r, cfg, mem>>

\* faulty variant of remove_keyframe: del instead of pop, an absent id raises
RemoveKeyframe_Del(frame_id) ==
    /\ keyframe_poses' = DictPop(keyframe_poses, frame_id)
    /\ last' = [Call("remove_keyframe", frame_id,
                     IF frame_id \in KeySet(keyframe_poses) THEN "ok" ELSE "KeyError")
                   EXCEPT !.was_keyframe = frame_id \in KeySet(keyframe_poses)]
    /\ out' = NoOut
    /\ UNCHANGED <<all_poses, frame_count, returned, rpc, r, cfg, mem>>

\* faulty variant of remove_keyframe: the frame is dropped from all_poses too
RemoveKeyframe_FromAll(frame_id) ==
    /\ keyframe_poses' = DictPop(keyframe_poses, frame_id)
    /\ all_poses' = [k \in (DOMAIN all_poses) \ {frame_id} |-> all_poses[k]]
    /\ last' = [Call("remove_keyframe", frame_id, "ok")
                   EXCEPT !.was_keyframe = frame_id \in KeySet(keyframe_poses)]
    /\ out' = NoOut
    /\ UNCHANGED <<frame_count, returned, rpc, r, cfg, mem>>

\* remove_keyframe
RemoveKeyframe(frame_id) ==
    /\ keyframe_poses' = DictPop(keyframe_poses, frame_id)
    /\ last' = [Call("remove_keyframe", frame_id, "ok")
                   EXCEPT !.was_keyframe = frame_id \in KeySet(keyframe_poses)]
    /\ out' = NoOut
    /\ UNCHANGED <<all_poses, frame_count, returned, rpc, r, cfg, mem>>

\* faulty variant of get_current_pose: the pose of the keyframe promoted last
get_current_pose_LastKeyframe(poses) ==
    IF DOMAIN poses = {} THEN Eye4
    ELSE IF keyframe_poses # << >> THEN keyframe_poses[Len(keyframe_poses)].pose
    ELSE poses[SetMax(DOMAIN poses)]

\* get_current_pose as a function of the all-frames map
get_current_pose(poses) ==
    IF DOMAIN poses = {} THEN Eye4 ELSE poses[SetMax(DOMAIN poses)]

\* a call of get_current_pose
GetCurrentPose ==
    /\ last' = Call("get_current_pose", -1, "ok")
    /\ out' = [NoOut EXCEPT !.pose = get_current_pose(all_poses)]
    /\ UNCHANGED <<all_poses, keyframe_poses, frame_count, returned, rpc, r, cfg, mem>>

(***************************************************************************)
(* Map generation.                                                         *)
(***************************************************************************)
\* base_colors of _get_keyframe_color (BGR)
base_colors ==
    << <<25, 25, 230>>, <<60, 180, 75>>, <<200, 130, 0>>, <<48, 130, 245>>,
       <<180, 30, 145>>, <<240, 240, 70>>, <<230, 50, 240>>, <<60, 245, 210>> >>

\* int(c + (255 - c) * WHITEWASH) with WHITEWASH = 0.45
Whitewash(c) == c + ((255 - c) * 45) \div 100

\* _get_keyframe_color(index), index counted from 0
get_keyframe_color(index) ==
    LET c == base_colors[(index % Len(base_colors)) + 1]
    IN <<Whitewash(c[1]), Whitewash(c[2]), Whitewash(c[3])>>

(***************************************************************************)
(* Layout: distances, outliers and scale.  A distance np.sqrt(x**2 + y**2) *)
(* is kept as its square, an integer; a scale usable_radius / max_dist as  *)
(* the pair (num, den2) standing for num / sqrt(den2).                     *)
(***************************************************************************)
\* floor of the square root of n, by bisection between lo and hi
RECURSIVE ISqrtBetween(_, _, _)
ISqrtBetween(n, lo, hi) ==
    IF lo >= hi THEN lo
    ELSE CHOOSE res \in
           {IF mid * mid <= n THEN ISqrtBetween(n, mid, hi) ELSE ISqrtBetween(n, lo, mid - 1)
            : mid \in {(lo + hi + 1) \div 2}} : TRUE

ISqrt(n) == CHOOSE res \in {ISqrtBetween(m, 0, IF m < 46340 THEN m ELSE 46340) : m \in {n}} : TRUE

\* the largest a from a0 down whose square divides d2
RECURSIVE CoefFrom(_, _)
CoefFrom(d2, a0) == IF a0 <= 1 \/ d2 % (a0 * a0) = 0 THEN a0 ELSE CoefFrom(d2, a0 - 1)

\* sqrt(d2) = Coef(d2) * sqrt(Surd(d2)) with Surd(d2) square-free
Coef(d2) == IF d2 = 0 THEN 0 ELSE CHOOSE res \in {CoefFrom(d2, a0) : a0 \in {ISqrt(d2)}} : TRUE
Surd(d2) == IF d2 = 0 THEN 1 ELSE CHOOSE res \in {d2 \div (a * a) : a \in {Coef(d2)}} : TRUE

\* np.sqrt(x**2 + y**2) of one position: its square d2, and a and q with
\* sqrt(d2) = a * sqrt(q)
Distance(pos) ==
    CHOOSE res \in
      {[id |-> pos.id, d2 |-> d2, a |-> Coef(d2), q |-> Surd(d2)]
       : d2 \in {pos.x * pos.x + pos.y * pos.y}} : TRUE

\* distances = {fid: np.sqrt(x**2 + y**2) ...}, in dict order
RECURSIVE DistancesFrom(_, _)
DistancesFrom(positions, n) ==
    IF n > Len(positions) THEN << >>
    ELSE <<Distance(positions[n])>> \o DistancesFrom(positions, n + 1)

Distances(positions) == DistancesFrom(positions, 1)

\* max(...) of a non-empty list of distances, as a square
MaxD2(dists) == CHOOSE m \in {dists[n].d2 : n \in 1..Len(dists)} :
                    \A n \in 1..Len(dists) : dists[n].d2 <= m

\* np.mean and np.std are decided exactly when all distances are integer
\* multiples of one square root: d_i = a_i * sqrt(q)
Commensurable(dists) ==
    \A m, n \in 1..Len(dists) :
        (dists[m].d2 # 0 /\ dists[n].d2 # 0) => dists[m].q = dists[n].q

RECURSIVE SumFrom(_, _)
SumFrom(seq, n) == IF n > Len(seq) THEN 0 ELSE seq[n] + SumFrom(seq, n + 1)

\* _compute_scale(max_dist, margin=10), max_dist given by its square
compute_scale(max_d2) ==
    LET margin == 10
        canvas_size == cfg.image_size - (2 * cfg.border_size)
        usable_radius == (canvas_size \div 2) - margin
    IN IF max_d2 = 0 THEN [num |-> 50, den2 |-> 1]
       ELSE [num |-> usable_radius, den2 |-> max_d2]

\* _compute_map_layout, lines 222-233: no outliers when std < 1e-6, otherwise
\* the ids with d > mean + k * std.  With d_i = a_i * sqrt(q), n distances,
\* S the sum of the a_i, Q the sum of their squares and V = n * Q - S * S,
\* that is n * a_i - S > k * sqrt(V)
FarIds(dists) ==
    LET n == Len(dists)
        k == cfg.outlier_std_threshold
    IN CHOOSE res \in
         {IF n * Q - S * S = 0 THEN {}
          ELSE {dists[m].id : m \in {j \in 1..n :
                   /\ n * dists[j].a - S > 0
                   /\ (n * dists[j].a - S) * (n * dists[j].a - S) > k * k * (n * Q - S * S)}}
          : S \in {SumFrom([m \in 1..n |-> dists[m].a], 1)},
            Q \in {SumFrom([m \in 1..n |-> dists[m].a * dists[m].a], 1)}} : TRUE

\* faulty variant of OutlierIds: the sample-count test is dropped
OutlierIds_NoMinSamples(dists) == FarIds(dists)

\* _compute_map_layout, lines 214-233: no outliers below 5 samples
OutlierIds(dists) ==
    LET MIN_SAMPLES_FOR_OUTLIER == 5
    IN IF Len(dists) < MIN_SAMPLES_FOR_OUTLIER THEN {} ELSE FarIds(dists)

\* faulty variant of InlierMaxD2: the largest distance of all keyframes
InlierMaxD2_All(dists, outlier_ids) == MaxD2(dists)

\* lines 236-239: the scale comes from the largest inlier distance
InlierMaxD2(dists, outlier_ids) ==
    LET inlier == SelectSeq(dists, LAMBDA e : e.id \notin outlier_ids)
    IN IF Len(inlier) > 0 THEN MaxD2(inlier) ELSE MaxD2(dists)

\* one pass of the loop of _compute_map_layout over keyframe_poses.items():
\* the first pose pair that fails validation raises, otherwise the (x, y)
\* displacement of every keyframe is recorded in dict order
RECURSIVE LayoutFrom(_, _, _, _)
LayoutFrom(current_pose, kf, n, acc) ==
    IF n > Len(kf) THEN [err |-> "none", positions |-> acc]
    ELSE CHOOSE res \in
           {IF rel_pose.err # "none" THEN [err |-> rel_pose.err, positions |-> << >>]
            ELSE CHOOSE res2 \in
                   {IF d.err # "none" THEN [err |-> d.err, positions |-> << >>]
                    ELSE LayoutFrom(current_pose, kf, n + 1,
                                    Append(acc, [id |-> kf[n].id, x |-> d.val[1], y |-> d.val[2]]))
                    : d \in {extract_displacement(rel_pose.val)}} : TRUE
            : rel_pose \in {compute_relative_pose(current_pose, kf[n].pose)}} : TRUE

\* the result of _compute_map_layout
Layout(err, positions, scale, outlier_ids) ==
    [err |-> err, positions |-> positions, scale |-> scale, outlier_ids |-> outlier_ids]

\* _compute_map_layout: positions of the keyframes relative to current_pose,
\* pixels per metre and the outlier ids.  A layout of five or more distances
\* that are not multiples of one square root is outside what the model can
\* decide and ends in the status "Incommensurable"
compute_map_layout(current_pose, kf) ==
    CHOOSE res \in
      {IF lay.err # "none" THEN Layout(lay.err, << >>, compute_scale(0), {})
       ELSE IF Len(lay.positions) = 0 THEN Layout("none", << >>, compute_scale(0), {})
       ELSE CHOOSE res2 \in
              {IF Len(dists) >= 5 /\ ~Commensurable(dists)
               THEN Layout("Incommensurable", << >>, compute_scale(0), {})
               ELSE CHOOSE res3 \in
                      {Layout("none", lay.positions,
                              compute_scale(InlierMaxD2(dists, outlier_ids)), outlier_ids)
                       : outlier_ids \in {OutlierIds(dists)}} : TRUE
               : dists \in {Distances(lay.positions)}} : TRUE
       : lay \in {LayoutFrom(current_pose, kf, 1, << >>)}} : TRUE

(***************************************************************************)
(* Placement in pixels.                                                    *)
(***************************************************************************)
\* int(x * scale): truncation towards zero of x * num / sqrt(den2)
TruncMul(x, scale) ==
    CHOOSE res \in
      {IF x < 0 THEN 0 - n ELSE n
       : n \in {ISqrt(((scale.num * x) * (scale.num * x)) \div scale.den2)}} : TRUE

\* faulty variant of Clip: no clamp
Clip_None(p) == p

\* int(np.clip(p, border_size + keyframe_radius,
\*             image_size - border_size - keyframe_radius)): np.clip is
\* minimum(maximum(p, lo), hi), so hi wins when lo > hi
Clip(p) ==
    LET lo == cfg.border_size + cfg.keyframe_radius
        hi == cfg.image_size - cfg.border_size - cfg.keyframe_radius
        raised == IF p < lo THEN lo ELSE p
    IN IF raised > hi THEN hi ELSE raised

\* has_collision(x, y) of _resolve_overlap: sqrt(dx^2 + dy^2) < radius + oradius
has_collision(x, y, placed, radius) ==
    \E n \in 1..Len(placed) :
        LET dx == x - placed[n][1]
            dy == y - placed[n][2]
            min_dist == radius + placed[n][3]
        IN dx * dx + dy * dy < min_dist * min_dist

\* (int(dist * cos(angle)), int(dist * sin(angle))) for ring in range(1, 10),
\* i in range(max(8, ring * 8)), dist = ring * step and step = 16, the
\* keyframe radius of the default configuration
SpiralRings ==
  <<
    \* ring 1: 8 points at distance 16
    <<
      <<16, 0>>, <<11, 11>>, <<0, 16>>, <<-11, 11>>, <<-16, 0>>,
      <<-11, -11>>, <<0, -16>>, <<11, -11>>
    >>,
    \* ring 2: 16 points at distance 32
    <<
      <<32, 0>>, <<29, 12>>, <<22, 22>>, <<12, 29>>, <<0, 32>>, <<-12, 29>>,
      <<-22, 22>>, <<-29, 12>>, <<-32, 0>>, <<-29, -12>>, <<-22, -22>>,
      <<-12, -29>>, <<0, -32>>, <<12, -29>>, <<22, -22>>, <<29, -12>>
    >>,
    \* ring 3: 24 points at distance 48
    <<
      <<48, 0>>, <<46, 12>>, <<41, 23>>, <<33, 33>>, <<24, 41>>, <<12, 46>>,
      <<0, 48>>, <<-12, 46>>, <<-23, 41>>, <<-33, 33>>, <<-41, 23>>,
      <<-46, 12>>, <<-48, 0>>, <<-46, -12>>, <<-41, -23>>, <<-33, -33>>,
      <<-24, -41>>, <<-12, -46>>, <<0, -48>>, <<12, -46>>, <<24, -41>>,
      <<33, -33>>, <<41, -24>>, <<46, -12>>
    >>,
    \* ring 4: 32 points at distance 64
    <<
      <<64, 0>>, <<62, 12>>, <<59, 24>>, <<53, 35>>, <<45, 45>>, <<35, 53>>,
      <<24, 59>>, <<12, 62>>, <<0, 64>>, <<-12, 62>>, <<-24, 59>>,
      <<-35, 53>>, <<-45, 45>>, <<-53, 35>>, <<-59, 24>>, <<-62, 12>>,
      <<-64, 0>>, <<-62, -12>>, <<-59, -24>>, <<-53, -35>>, <<-45, -45>>,
      <<-35, -53>>, <<-24, -59>>, <<-12, -62>>, <<0, -64>>, <<12, -62>>,
      <<24, -59>>, <<35, -53>>, <<45, -45>>, <<53, -35>>, <<59, -24>>,
      <<62, -12>>
    >>,
    \* ring 5: 40 points at distance 80
    <<
      <<80, 0>>, <<79, 12>>, <<76, 24>>, <<71, 36>>, <<64, 47>>, <<56, 56>>,
      <<47, 64>>, <<36, 71>>, <<24, 76>>, <<12, 79>>, <<0, 80>>, <<-12, 79>>,
      <<-24, 76>>, <<-36, 71>>, <<-47, 64>>, <<-56, 56>>, <<-64, 47>>,
      <<-71, 36>>, <<-76, 24>>, <<-79, 12>>, <<-80, 0>>, <<-79, -12>>,
      <<-76, -24>>, <<-71, -36>>, <<-64, -47>>, <<-56, -56>>, <<-47, -64>>,
      <<-36, -71>>, <<-24, -76>>, <<-12, -79>>, <<0, -80>>, <<12, -79>>,
      <<24, -76>>, <<36, -71>>, <<47, -64>>, <<56, -56>>, <<64, -47>>,
      <<71, -36>>, <<76, -24>>, <<79, -12>>
    >>,
    \* ring 6: 48 points at distance 96
    <<
      <<96, 0>>, <<95, 12>>, <<92, 24>>, <<88, 36>>, <<83, 47>>, <<76, 58>>,
      <<67, 67>>, <<58, 76>>, <<48, 83>>, <<36, 88>>, <<24, 92>>, <<12, 95>>,
      <<0, 96>>, <<-12, 95>>, <<-24, 92>>, <<-36, 88>>, <<-47, 83>>,
      <<-58, 76>>, <<-67, 67>>, <<-76, 58>>, <<-83, 47>>, <<-88, 36>>,
      <<-92, 24>>, <<-95, 12>>, <<-96, 0>>, <<-95, -12>>, <<-92, -24>>,
      <<-88, -36>>, <<-83, -47>>, <<-76, -58>>, <<-67, -67>>, <<-58, -76>>,
      <<-48, -83>>, <<-36, -88>>, <<-24, -92>>, <<-12, -95>>, <<0, -96>>,
      <<12, -95>>, <<24, -92>>, <<36, -88>>, <<48, -83>>, <<58, -76>>,
      <<67, -67>>, <<76, -58>>, <<83, -48>>, <<88, -36>>, <<92, -24>>,
      <<95, -12>>
    >>,
    \* ring 7: 56 points at distance 112
    <<
      <<112, 0>>, <<111, 12>>, <<109, 24>>, <<105, 36>>, <<100, 48>>,
      <<94, 59>>, <<87, 69>>, <<79, 79>>, <<69, 87>>, <<59, 94>>,
      <<48, 100>>, <<36, 105>>, <<24, 109>>, <<12, 111>>, <<0, 112>>,
      <<-12, 111>>, <<-24, 109>>, <<-36, 105>>, <<-48, 100>>, <<-59, 94>>,
      <<-69, 87>>, <<-79, 79>>, <<-87, 69>>, <<-94, 59>>, <<-100, 48>>,
      <<-105, 36>>, <<-109, 24>>, <<-111, 12>>, <<-112, 0>>, <<-111, -12>>,
      <<-109, -24>>, <<-105, -36>>, <<-100, -48>>, <<-94, -59>>,
      <<-87, -69>>, <<-79, -79>>, <<-69, -87>>, <<-59, -94>>, <<-48, -100>>,
      <<-36, -105>>, <<-24, -109>>, <<-12, -111>>, <<0, -112>>, <<12, -111>>,
      <<24, -109>>, <<36, -105>>, <<48, -100>>, <<59, -94>>, <<69, -87>>,
      <<79, -79>>, <<87, -69>>, <<94, -59>>, <<100, -48>>, <<105, -36>>,
      <<109, -24>>, <<111, -12>>
    >>,
    \* ring 8: 64 points at distance 128
    <<
      <<128, 0>>, <<127, 12>>, <<125, 24>>, <<122, 37>>, <<118, 48>>,
      <<112, 60>>, <<106, 71>>, <<98, 81>>, <<90, 90>>, <<81, 98>>,
      <<71, 106>>, <<60, 112>>, <<48, 118>>, <<37, 122>>, <<24, 125>>,
      <<12, 127>>, <<0, 128>>, <<-12, 127>>, <<-24, 125>>, <<-37, 122>>,
      <<-48, 118>>, <<-60, 112>>, <<-71, 106>>, <<-81, 98>>, <<-90, 90>>,
      <<-98, 81>>, <<-106, 71>>, <<-112, 60>>, <<-118, 48>>, <<-122, 37>>,
      <<-125, 24>>, <<-127, 12>>, <<-128, 0>>, <<-127, -12>>, <<-125, -24>>,
      <<-122, -37>>, <<-118, -48>>, <<-112, -60>>, <<-106, -71>>,
      <<-98, -81>>, <<-90, -90>>, <<-81, -98>>, <<-71, -106>>, <<-60, -112>>,
      <<-48, -118>>, <<-37, -122>>, <<-24, -125>>, <<-12, -127>>,
      <<0, -128>>, <<12, -127>>, <<24, -125>>, <<37, -122>>, <<48, -118>>,
      <<60, -112>>, <<71, -106>>, <<81, -98>>, <<90, -90>>, <<98, -81>>,
      <<106, -71>>, <<112, -60>>, <<118, -48>>, <<122, -37>>, <<125, -24>>,
      <<127, -12>>
    >>,
    \* ring 9: 72 points at distance 144
    <<
      <<144, 0>>, <<143, 12>>, <<141, 25>>, <<139, 37>>, <<135, 49>>,
      <<130, 60>>, <<124, 71>>, <<117, 82>>, <<110, 92>>, <<101, 101>>,
      <<92, 110>>, <<82, 117>>, <<72, 124>>, <<60, 130>>, <<49, 135>>,
      <<37, 139>>, <<25, 141>>, <<12, 143>>, <<0, 144>>, <<-12, 143>>,
      <<-25, 141>>, <<-37, 139>>, <<-49, 135>>, <<-60, 130>>, <<-71, 124>>,
      <<-82, 117>>, <<-92, 110>>, <<-101, 101>>, <<-110, 92>>, <<-117, 82>>,
      <<-124, 72>>, <<-130, 60>>, <<-135, 49>>, <<-139, 37>>, <<-141, 25>>,
      <<-143, 12>>, <<-144, 0>>, <<-143, -12>>, <<-141, -25>>, <<-139, -37>>,
      <<-135, -49>>, <<-130, -60>>, <<-124, -72>>, <<-117, -82>>,
      <<-110, -92>>, <<-101, -101>>, <<-92, -110>>, <<-82, -117>>,
      <<-72, -124>>, <<-60, -130>>, <<-49, -135>>, <<-37, -139>>,
      <<-25, -141>>, <<-12, -143>>, <<0, -144>>, <<12, -143>>, <<25, -141>>,
      <<37, -139>>, <<49, -135>>, <<60, -130>>, <<71, -124>>, <<82, -117>>,
      <<92, -110>>, <<101, -101>>, <<110, -92>>, <<117, -82>>, <<124, -71>>,
      <<130, -60>>, <<135, -49>>, <<139, -37>>, <<141, -25>>, <<143, -12>>
    >>
  >>

\* the same offsets for step = 2, the keyframe radius of SmallMarkers
SpiralRingsStep2 ==
  <<
    \* ring 1: 8 points at distance 2
    <<
      <<2, 0>>, <<1, 1>>, <<0, 2>>, <<-1, 1>>, <<-2, 0>>, <<-1, -1>>,
      <<0, -2>>, <<1, -1>>
    >>,
    \* ring 2: 16 points at distance 4
    <<
      <<4, 0>>, <<3, 1>>, <<2, 2>>, <<1, 3>>, <<0, 4>>, <<-1, 3>>,
      <<-2, 2>>, <<-3, 1>>, <<-4, 0>>, <<-3, -1>>, <<-2, -2>>, <<-1, -3>>,
      <<0, -4>>, <<1, -3>>, <<2, -2>>, <<3, -1>>
    >>,
    \* ring 3: 24 points at distance 6
    <<
      <<6, 0>>, <<5, 1>>, <<5, 2>>, <<4, 4>>, <<3, 5>>, <<1, 5>>, <<0, 6>>,
      <<-1, 5>>, <<-2, 5>>, <<-4, 4>>, <<-5, 2>>, <<-5, 1>>, <<-6, 0>>,
      <<-5, -1>>, <<-5, -2>>, <<-4, -4>>, <<-3, -5>>, <<-1, -5>>, <<0, -6>>,
      <<1, -5>>, <<3, -5>>, <<4, -4>>, <<5, -3>>, <<5, -1>>
    >>,
    \* ring 4: 32 points at distance 8
    <<
      <<8, 0>>, <<7, 1>>, <<7, 3>>, <<6, 4>>, <<5, 5>>, <<4, 6>>, <<3, 7>>,
      <<1, 7>>, <<0, 8>>, <<-1, 7>>, <<-3, 7>>, <<-4, 6>>, <<-5, 5>>,
      <<-6, 4>>, <<-7, 3>>, <<-7, 1>>, <<-8, 0>>, <<-7, -1>>, <<-7, -3>>,
      <<-6, -4>>, <<-5, -5>>, <<-4, -6>>, <<-3, -7>>, <<-1, -7>>, <<0, -8>>,
      <<1, -7>>, <<3, -7>>, <<4, -6>>, <<5, -5>>, <<6, -4>>, <<7, -3>>,
      <<7, -1>>
    >>,
    \* ring 5: 40 points at distance 10
    <<
      <<10, 0>>, <<9, 1>>, <<9, 3>>, <<8, 4>>, <<8, 5>>, <<7, 7>>, <<5, 8>>,
      <<4, 8>>, <<3, 9>>, <<1, 9>>, <<0, 10>>, <<-1, 9>>, <<-3, 9>>,
      <<-4, 8>>, <<-5, 8>>, <<-7, 7>>, <<-8, 5>>, <<-8, 4>>, <<-9, 3>>,
      <<-9, 1>>, <<-10, 0>>, <<-9, -1>>, <<-9, -3>>, <<-8, -4>>, <<-8, -5>>,
      <<-7, -7>>, <<-5, -8>>, <<-4, -8>>, <<-3, -9>>, <<-1, -9>>,
      <<0, -10>>, <<1, -9>>, <<3, -9>>, <<4, -8>>, <<5, -8>>, <<7, -7>>,
      <<8, -5>>, <<8, -4>>, <<9, -3>>, <<9, -1>>
    >>,
    \* ring 6: 48 points at distance 12
    <<
      <<12, 0>>, <<11, 1>>, <<11, 3>>, <<11, 4>>, <<10, 5>>, <<9, 7>>,
      <<8, 8>>, <<7, 9>>, <<6, 10>>, <<4, 11>>, <<3, 11>>, <<1, 11>>,
      <<0, 12>>, <<-1, 11>>, <<-3, 11>>, <<-4, 11>>, <<-5, 10>>, <<-7, 9>>,
      <<-8, 8>>, <<-9, 7>>, <<-10, 5>>, <<-11, 4>>, <<-11, 3>>, <<-11, 1>>,
      <<-12, 0>>, <<-11, -1>>, <<-11, -3>>, <<-11, -4>>, <<-10, -5>>,
      <<-9, -7>>, <<-8, -8>>, <<-7, -9>>, <<-6, -10>>, <<-4, -11>>,
      <<-3, -11>>, <<-1, -11>>, <<0, -12>>, <<1, -11>>, <<3, -11>>,
      <<4, -11>>, <<6, -10>>, <<7, -9>>, <<8, -8>>, <<9, -7>>, <<10, -6>>,
      <<11, -4>>, <<11, -3>>, <<11, -1>>
    >>,
    \* ring 7: 56 points at distance 14
    <<
      <<14, 0>>, <<13, 1>>, <<13, 3>>, <<13, 4>>, <<12, 6>>, <<11, 7>>,
      <<10, 8>>, <<9, 9>>, <<8, 10>>, <<7, 11>>, <<6, 12>>, <<4, 13>>,
      <<3, 13>>, <<1, 13>>, <<0, 14>>, <<-1, 13>>, <<-3, 13>>, <<-4, 13>>,
      <<-6, 12>>, <<-7, 11>>, <<-8, 10>>, <<-9, 9>>, <<-10, 8>>, <<-11, 7>>,
      <<-12, 6>>, <<-13, 4>>, <<-13, 3>>, <<-13, 1>>, <<-14, 0>>,
      <<-13, -1>>, <<-13, -3>>, <<-13, -4>>, <<-12, -6>>, <<-11, -7>>,
      <<-10, -8>>, <<-9, -9>>, <<-8, -10>>, <<-7, -11>>, <<-6, -12>>,
      <<-4, -13>>, <<-3, -13>>, <<-1, -13>>, <<0, -14>>, <<1, -13>>,
      <<3, -13>>, <<4, -13>>, <<6, -12>>, <<7, -11>>, <<8, -10>>, <<9, -9>>,
      <<10, -8>>, <<11, -7>>, <<12, -6>>, <<13, -4>>, <<13, -3>>, <<13, -1>>
    >>,
    \* ring 8: 64 points at distance 16
    <<
      <<16, 0>>, <<15, 1>>, <<15, 3>>, <<15, 4>>, <<14, 6>>, <<14, 7>>,
      <<13, 8>>, <<12, 10>>, <<11, 11>>, <<10, 12>>, <<8, 13>>, <<7, 14>>,
      <<6, 14>>, <<4, 15>>, <<3, 15>>, <<1, 15>>, <<0, 16>>, <<-1, 15>>,
      <<-3, 15>>, <<-4, 15>>, <<-6, 14>>, <<-7, 14>>, <<-8, 13>>,
      <<-10, 12>>, <<-11, 11>>, <<-12, 10>>, <<-13, 8>>, <<-14, 7>>,
      <<-14, 6>>, <<-15, 4>>, <<-15, 3>>, <<-15, 1>>, <<-16, 0>>,
      <<-15, -1>>, <<-15, -3>>, <<-15, -4>>, <<-14, -6>>, <<-14, -7>>,
      <<-13, -8>>, <<-12, -10>>, <<-11, -11>>, <<-10, -12>>, <<-8, -13>>,
      <<-7, -14>>, <<-6, -14>>, <<-4, -15>>, <<-3, -15>>, <<-1, -15>>,
      <<0, -16>>, <<1, -15>>, <<3, -15>>, <<4, -15>>, <<6, -14>>,
      <<7, -14>>, <<8, -13>>, <<10, -12>>, <<11, -11>>, <<12, -10>>,
      <<13, -8>>, <<14, -7>>, <<14, -6>>, <<15, -4>>, <<15, -3>>, <<15, -1>>
    >>,
    \* ring 9: 72 points at distance 18
    <<
      <<18, 0>>, <<17, 1>>, <<17, 3>>, <<17, 4>>, <<16, 6>>, <<16, 7>>,
      <<15, 8>>, <<14, 10>>, <<13, 11>>, <<12, 12>>, <<11, 13>>, <<10, 14>>,
      <<9, 15>>, <<7, 16>>, <<6, 16>>, <<4, 17>>, <<3, 17>>, <<1, 17>>,
      <<0, 18>>, <<-1, 17>>, <<-3, 17>>, <<-4, 17>>, <<-6, 16>>, <<-7, 16>>,
      <<-8, 15>>, <<-10, 14>>, <<-11, 13>>, <<-12, 12>>, <<-13, 11>>,
      <<-14, 10>>, <<-15, 9>>, <<-16, 7>>, <<-16, 6>>, <<-17, 4>>,
      <<-17, 3>>, <<-17, 1>>, <<-18, 0>>, <<-17, -1>>, <<-17, -3>>,
      <<-17, -4>>, <<-16, -6>>, <<-16, -7>>, <<-15, -9>>, <<-14, -10>>,
      <<-13, -11>>, <<-12, -12>>, <<-11, -13>>, <<-10, -14>>, <<-9, -15>>,
      <<-7, -16>>, <<-6, -16>>, <<-4, -17>>, <<-3, -17>>, <<-1, -17>>,
      <<0, -18>>, <<1, -17>>, <<3, -17>>, <<4, -17>>, <<6, -16>>,
      <<7, -16>>, <<8, -15>>, <<10, -14>>, <<11, -13>>, <<12, -12>>,
      <<13, -11>>, <<14, -10>>, <<15, -8>>, <<16, -7>>, <<16, -6>>,
      <<17, -4>>, <<17, -3>>, <<17, -1>>
    >>
  >>

\* the offsets of the rings searched for a given step
SpiralOffsets(step) == IF step = 2 THEN SpiralRingsStep2 ELSE SpiralRings

\* the points of one ring from index i on: the first free one, if any
RingSearch(px, py, placed, radius, ring, i) ==
    CHOOSE res \in
      {LET free == {n \in i..Len(points) :
                      ~has_collision(px + points[n][1], py + points[n][2], placed, radius)}
       IN IF free = {} THEN [found |-> FALSE, x |-> px, y |-> py]
          ELSE CHOOSE hit \in
                 {[found |-> TRUE, x |-> px + points[n][1], y |-> py + points[n][2]]
                  : n \in {CHOOSE m \in free : \A k \in free : m <= k}} : TRUE
       : points \in {SpiralOffsets(radius)[ring]}} : TRUE

\* faulty variant of Fallback: the candidate is returned where it was
Fallback_Stay(px, py, radius) == <<px, py>>

\* line 308: the fallback, an offset to the right that is not tested
Fallback(px, py, radius) == <<px + radius * 3, py>>

\* the rings from ring on; when every ring is taken, the fallback offset
RECURSIVE SpiralSearch(_, _, _, _, _)
SpiralSearch(px, py, placed, radius, ring) ==
    IF ring > Len(SpiralOffsets(radius)) THEN Fallback(px, py, radius)
    ELSE CHOOSE res \in
           {IF hit.found THEN <<hit.x, hit.y>>
            ELSE SpiralSearch(px, py, placed, radius, ring + 1)
            : hit \in {RingSearch(px, py, placed, radius, ring, 1)}} : TRUE

\* faulty variant of _resolve_overlap: the position is returned as it is
resolve_overlap_Keep(px, py, placed, radius) == <<px, py>>

\* _resolve_overlap(px, py, placed, radius)
resolve_overlap(px, py, placed, radius) ==
    IF ~has_collision(px, py, placed, radius) THEN <<px, py>>
    ELSE SpiralSearch(px, py, placed, radius, 1)

\* generate_map, lines 323-334: canvas, robot circle, and the list of
\* keyframe ids, read from self.keyframe_poses at this point
CanvasLocals(current_pose, layout, kf) ==
    LET center == cfg.image_size \div 2
    IN [NoLocals EXCEPT !.current_pose = current_pose,
                        !.positions = layout.positions,
                        !.scale = layout.scale,
                        !.outlier_ids = layout.outlier_ids,
                        !.image = TRUE,
                        !.placed_circles = << <<center, center, cfg.robot_radius>> >>,
                        !.keyframe_ids = DictKeys(kf),
                        !.i = 0]

\* positions[frame_id] for a key that is present
PositionOf(positions, frame_id) ==
    positions[CHOOSE n \in 1..Len(positions) : positions[n].id = frame_id]

\* lines 341-342: center + int(x * scale), before any clamp
RawPixel(x, scale) == (cfg.image_size \div 2) + TruncMul(x, scale)

\* lines 339-354: the pixel position of a keyframe before the clamp (rx, ry),
\* after the first clamp (px0, py0) and as it is recorded (px, py):
\* <<px0, py0, px, py, rx, ry>>
PixelPosition(pos, scale, placed_circles) ==
    CHOOSE res \in
      {LET px0 == Clip(rx)
           py0 == Clip(ry)
       IN IF cfg.avoid_overlap
          THEN CHOOSE res2 \in
                 {<<px0, py0, Clip(q[1]), Clip(q[2]), rx, ry>>
                  : q \in {resolve_overlap(px0, py0, placed_circles, cfg.keyframe_radius)}} : TRUE
          ELSE <<px0, py0, px0, py0, rx, ry>>
       : rx \in {RawPixel(pos.x, scale)}, ry \in {RawPixel(pos.y, scale)}} : TRUE

\* generate_map, lines 336-395 with the given colour: one pass of the
\* placement loop over the locals, reading self.keyframe_poses (kf) again for
\* the orientation arrow
PlaceWith(locals, kf, color) ==
    LET i == locals.i
        frame_id == locals.keyframe_ids[i + 1]
        colors == Append(locals.colors, [id |-> frame_id, color |-> color])
        haspos == \E n \in 1..Len(locals.positions) : locals.positions[n].id = frame_id
    IN IF ~haspos THEN [err |-> "KeyError", locals |-> locals]
       ELSE IF frame_id \notin KeySet(kf) THEN [err |-> "KeyError", locals |-> locals]
       ELSE LET rel_pose == compute_relative_pose(locals.current_pose, DictGet(kf, frame_id))
            IN IF rel_pose.err # "none" THEN [err |-> rel_pose.err, locals |-> locals]
               ELSE CHOOSE res \in
                      {[err |-> "none",
                        locals |-> [locals EXCEPT
                            !.i = i + 1,
                            !.colors = colors,
                            !.placed = Append(locals.placed, frame_id),
                            !.unresolved = Append(locals.unresolved, <<p[1], p[2]>>),
                            !.raw = Append(locals.raw, <<p[5], p[6]>>),
                            !.placed_circles = Append(locals.placed_circles,
                                                      <<p[3], p[4], cfg.keyframe_radius>>)]]
                       : p \in {PixelPosition(PositionOf(locals.positions, frame_id),
                                              locals.scale, locals.placed_circles)}} : TRUE

\* faulty variant of the placement loop: the colour is picked by frame id
PlaceOne_ColorById(locals, kf) ==
    PlaceWith(locals, kf, get_keyframe_color(locals.keyframe_ids[locals.i + 1]))

\* generate_map, lines 336-395: one pass of the placement loop, the colour
\* being that of the position i in keyframe_ids
PlaceOne(locals, kf) == PlaceWith(locals, kf, get_keyframe_color(locals.i))

\* the whole placement loop, run without interruption
RECURSIVE PlaceAll(_, _)
PlaceAll(locals, kf) ==
    IF locals.i >= Len(locals.keyframe_ids) THEN [err |-> "none", locals |-> locals]
    ELSE CHOOSE res \in
           {IF s.err # "none" THEN s ELSE PlaceAll(s.locals, kf)
            : s \in {PlaceOne(locals, kf)}} : TRUE

\* an exception leaves generate_map: the locals are dropped
GenRaise(status, canvas) ==
    /\ rpc' = "idle"
    /\ r' = NoLocals
    /\ last' = [Call("generate_map", -1, status) EXCEPT !.canvas = canvas]
    /\ out' = NoOut

\* generate_map returns (image, colors)
GenOk(locals) ==
    /\ rpc' = "idle"
    /\ r' = NoLocals
    /\ last' = [Call("generate_map", -1, "ok") EXCEPT !.canvas = locals.image]
    /\ out' = [NoOut EXCEPT !.colors = locals.colors,
                            !.placed = locals.placed,
                            !.unresolved = locals.unresolved,
                            !.raw = locals.raw,
                            !.circles = locals.placed_circles,
                            !.scale = locals.scale,
                            !.outlier_ids = locals.outlier_ids,
                            !.laid_out = [n \in 1..Len(locals.positions) |-> locals.positions[n].id]]

\* faulty variant of generate_map: the canvas is created before the layout
GenerateMap_CanvasFirst ==
    /\ rpc = "idle"
    /\ \E current_pose \in {get_current_pose(all_poses)} :
       \E layout \in {compute_map_layout(current_pose, keyframe_poses)} :
          IF layout.err # "none"
          THEN GenRaise(layout.err, TRUE)
          ELSE \E fin \in {PlaceAll(CanvasLocals(current_pose, layout, keyframe_poses),
                                    keyframe_poses)} :
                  IF fin.err # "none"
                  THEN GenRaise(fin.err, fin.locals.image)
                  ELSE GenOk(fin.locals)
    /\ UNCHANGED <<all_poses, keyframe_poses, frame_count, returned, cfg, mem>>

\* generate_map as one uninterrupted call
GenerateMap ==
    /\ rpc = "idle"
    /\ \E current_pose \in {get_current_pose(all_poses)} :
       \E layout \in {compute_map_layout(current_pose, keyframe_poses)} :
          IF layout.err # "none"
          THEN GenRaise(layout.err, FALSE)
          ELSE \E fin \in {PlaceAll(CanvasLocals(current_pose, layout, keyframe_poses),
                                    keyframe_poses)} :
                  IF fin.err # "none"
                  THEN GenRaise(fin.err, fin.locals.image)
                  ELSE GenOk(fin.locals)
    /\ UNCHANGED <<all_poses, keyframe_poses, frame_count, returned, cfg, mem>>

\* generate_map run step by step, other calls being free to run in between.
\* Lines 318-320: current pose and layout
GenLayout ==
    /\ rpc = "idle"
    /\ \E current_pose \in {get_current_pose(all_poses)} :
       \E layout \in {compute_map_layout(current_pose, keyframe_poses)} :
          IF layout.err # "none"
          THEN GenRaise(layout.err, FALSE)
          ELSE /\ rpc' = "canvas"
               /\ r' = [NoLocals EXCEPT !.current_pose = current_pose,
                                        !.positions = layout.positions,
                                        !.scale = layout.scale,
                                        !.outlier_ids = layout.outlier_ids]
               /\ UNCHANGED <<last, out>>
    /\ UNCHANGED <<all_poses, keyframe_poses, frame_count, returned, cfg, mem>>

\* lines 323-334
GenCanvas ==
    /\ rpc = "canvas"
    /\ rpc' = "loop"
    /\ r' = CanvasLocals(r.current_pose, r, keyframe_poses)
    /\ UNCHANGED <<all_poses, keyframe_poses, frame_count, returned, last, out, cfg, mem>>

\* lines 336-395, one pass
GenPlace ==
    /\ rpc = "loop"
    /\ r.i < Len(r.keyframe_ids)
    /\ \E s \in {PlaceOne(r, keyframe_poses)} :
          IF s.err # "none"
          THEN GenRaise(s.err, r.image)
          ELSE /\ r' = s.locals
               /\ UNCHANGED <<rpc, last, out>>
    /\ UNCHANGED <<all_poses, keyframe_poses, frame_count, returned, cfg, mem>>

\* lines 397-403
GenReturn ==
    /\ rpc = "loop"
    /\ r.i = Len(r.keyframe_ids)
    /\ GenOk(r)
    /\ UNCHANGED <<all_poses, keyframe_poses, frame_count, returned, cfg, mem>>

(***************************************************************************)
(* Watermarking.                                                           *)
(***************************************************************************)
\* colors[fid] for a key that is present
ColorOf(colors, fid) == colors[CHOOSE n \in 1..Len(colors) : colors[n].id = fid].color

ColorKeys(colors) == {colors[n].id : n \in 1..Len(colors)}

\* an image as a caller hands it in: the picture of frame f, nothing drawn on it
RawImage(f) == [image |-> f, color |-> << >>, label |-> 0]

\* cv2.rectangle(img, ..., color, -1) and cv2.putText(img, label, ...)
Stamp(img, color, label) == [img EXCEPT !.color = color, !.label = label]

\* the start of the loop: nothing watermarked, the caller's list as passed
WmStart(keyframes) == [err |-> "none", images |-> << >>, caller |-> keyframes]

\* faulty variant of WatermarkOne: the images stamped before the missing id
\* are still handed out
WatermarkOne_KeepPartial(acc, colors, idx) ==
    LET fid == acc.caller[idx + 1].fid
        keyframe == acc.caller[idx + 1].image
    IN IF fid \notin ColorKeys(colors)
       THEN [acc EXCEPT !.err = "ValueError"]
       ELSE [acc EXCEPT !.images = Append(@, Stamp(keyframe, ColorOf(colors, fid), idx + 1))]

\* faulty variant of WatermarkOne: draws on the caller's image, without
\* keyframe.copy()
WatermarkOne_NoCopy(acc, colors, idx) ==
    LET fid == acc.caller[idx + 1].fid
        keyframe == acc.caller[idx + 1].image
    IN IF fid \notin ColorKeys(colors)
       THEN [acc EXCEPT !.err = "ValueError", !.images = << >>]
       ELSE LET img == Stamp(keyframe, ColorOf(colors, fid), idx + 1)
            IN [acc EXCEPT !.images = Append(@, img), !.caller[idx + 1].image = img]

\* one iteration of the loop of watermark_keyframes (lines 133-167): an id
\* without a colour raises, and the images stamped so far are dropped with
\* the local list; otherwise a copy of the image is stamped with the colour
\* of its id and with idx + 1, and appended
WatermarkOne(acc, colors, idx) ==
    LET fid == acc.caller[idx + 1].fid
        keyframe == acc.caller[idx + 1].image
    IN IF fid \notin ColorKeys(colors)
       THEN [acc EXCEPT !.err = "ValueError", !.images = << >>]
       ELSE [acc EXCEPT !.images = Append(@, Stamp(keyframe, ColorOf(colors, fid), idx + 1))]

\* the loop of watermark_keyframes, from index idx on
RECURSIVE WatermarkFrom(_, _, _)
WatermarkFrom(acc, colors, idx) ==
    IF idx >= Len(acc.caller) \/ acc.err # "none" THEN acc
    ELSE WatermarkFrom(WatermarkOne(acc, colors, idx), colors, idx + 1)

\* watermark_keyframes(keyframes, colors)
watermark_keyframes(keyframes, colors) == WatermarkFrom(WmStart(keyframes), colors, 0)

\* a call of watermark_keyframes with the colour map of the render that
\* has just returned (scripts/test_approach.py, lines 179-187); out.caller
\* is the caller's list as the call leaves it
WatermarkKeyframes(keyframes) ==
    /\ last.op = "generate_map"
    /\ last.status = "ok"
    /\ LET res == watermark_keyframes(keyframes, out.colors)
       IN /\ last' = [Call("watermark_keyframes", -1, IF res.err = "none" THEN "ok" ELSE res.err)
                         EXCEPT !.list = [n \in 1..Len(keyframes) |-> keyframes[n].fid]]
          /\ out' = [out EXCEPT !.images = res.images, !.caller = res.caller]
    /\ UNCHANGED <<all_poses, keyframe_poses, frame_count, returned, rpc, r, cfg, mem>>

(***************************************************************************)
(* Specifications.                                                         *)
(***************************************************************************)
\* frame ids a caller may name: the allocated ones and one never allocated
CallerIds == 0..MaxFrames

\* ids a caller may pass to watermark_keyframes
WmIds == {0, 1, MaxFrames}

\* (id, image) lists over ids, each id with the picture of its frame
WmLists(ids) ==
    UNION {{[n \in 1..len |-> [fid |-> f[n], image |-> RawImage(f[n])]] : f \in [1..len -> ids]}
           : len \in 0..MaxWmLen}

\* Spec: calls run one after the other (the single control flow the class assumes)
Next ==
    \/ \E q \in RobotStates, b \in BasePoses : frame_count < MaxFrames /\ rpc = "idle" /\ AddFrame(q, b)
    \/ \E p \in PosePool : frame_count < MaxFrames /\ rpc = "idle" /\ AddFrameWithPose(p)
    \/ \E f \in CallerIds : rpc = "idle" /\ PromoteToKeyframe(f)
    \/ \E f \in CallerIds : rpc = "idle" /\ RemoveKeyframe(f)
    \/ rpc = "idle" /\ GetCurrentPose
    \/ GenerateMap
    \/ \E k \in WmLists(WmIds) : rpc = "idle" /\ WatermarkKeyframes(k)

Spec == Init /\ [][Next]_vars

\* SpecConc: a render runs step by step while the pose store is being changed
NextConc ==
    \/ \E p \in {TransX, RotZT} : frame_count < MaxFrames /\ AddFrameWithPose(p)
    \/ \E f \in CallerIds : PromoteToKeyframe(f)
    \/ \E f \in CallerIds : RemoveKeyframe(f)
    \/ GenLayout
    \/ GenCanvas
    \/ GenPlace
    \/ GenReturn

SpecConc == Init /\ [][NextConc]_vars

\* SpecPalette: enough frames to run through the whole palette.  Each frame
\* is promoted right after it was added, as scripts/test_approach.py does
\* (lines 167-172), or frame 0 is promoted late, so that insertion order and
\* id order differ.
PaletteFrames == Len(base_colors) + PaletteExtra

PalettePose(n) == IF n % 2 = 0 THEN TransX ELSE RotZT

PaletteIds == {0, frame_count - 1, frame_count}

\* the list of all keyframes in promotion order (test_approach.py, line 186),
\* or a single id
PaletteWmLists ==
    {[n \in 1..Len(keyframe_poses) |-> [fid |-> keyframe_poses[n].id,
                                         image |-> RawImage(keyframe_poses[n].id)]]}
    \cup {<<[fid |-> f, image |-> RawImage(f)]>> : f \in PaletteIds}

NextPalette ==
    \/ frame_count < PaletteFrames /\ AddFrameWithPose(PalettePose(frame_count))
    \/ \E f \in PaletteIds : PromoteToKeyframe(f)
    \/ \E f \in PaletteIds : RemoveKeyframe(f)
    \/ GenerateMap
    \/ \E k \in PaletteWmLists : WatermarkKeyframes(k)

SpecPalette == Init /\ [][NextPalette]_vars

\* SpecLayout: keyframes along the x axis, near and far, under two
\* configurations.  The caller promotes a frame before it adds the next one,
\* so every frame but possibly the newest is a keyframe, and at most MaxFar
\* frames are far away.
FarPose == AtX(100)

FarFrames == {f \in DOMAIN all_poses : all_poses[f] = FarPose}

\* the defaults (strength 2, overlap avoidance on), and strength 1 with
\* overlap avoidance off
LayoutConfigs ==
    {DefaultConfig,
     [DefaultConfig EXCEPT !.outlier_std_threshold = 1, !.avoid_overlap = FALSE]}

InitLayout == \E config \in LayoutConfigs : InitWith(config)

NextLayout ==
    \/ \E p \in LayoutPool :
          /\ frame_count < LayoutFrames
          /\ frame_count = 0 \/ (frame_count - 1) \in KeySet(keyframe_poses)
          /\ p = FarPose => Cardinality(FarFrames) < MaxFar
          /\ AddFrameWithPose(p)
    \/ frame_count > 0 /\ PromoteToKeyframe(frame_count - 1)
    \/ GenerateMap

SpecLayout == InitLayout /\ [][NextLayout]_vars

\* SpecPlace: the placement of the markers under four configurations.
\* MapConfig is a plain dataclass and __init__ stores what it is given
\* (lines 16-35), so any field values can be configured: markers of radius 2,
\* which the robot marker covers up to the ninth ring, and a canvas of side 40,
\* too small for the border and the two markers
SmallMarkers == [DefaultConfig EXCEPT !.keyframe_radius = 2]

Cramped == [DefaultConfig EXCEPT !.image_size = 40]

PlaceConfigs ==
    {DefaultConfig, [DefaultConfig EXCEPT !.avoid_overlap = FALSE], SmallMarkers, Cramped}

InitPlace == \E config \in PlaceConfigs : InitWith(config)

NextPlace ==
    \/ \E p \in LayoutPool :
          /\ frame_count < PlaceFrames
          /\ AddFrameWithPose(p)
    \/ frame_count > 0 /\ PromoteToKeyframe(frame_count - 1)
    \/ GenerateMap

SpecPlace == InitPlace /\ [][NextPlace]_vars

(***************************************************************************)
(* transforms.py over fixed-point entries.  The pose store above works on  *)
(* whole metres, where the tolerance of np.isclose never matters.  Here an *)
(* entry is an integer number of 1/Unit, so that matrices which are valid  *)
(* only within the tolerance can be told from exact ones.                  *)
(***************************************************************************)
\* 1 / tolerance of transform_is_valid (tolerance = 1e-3)
ToleranceInv == 1000

\* 1 / rtol of np.isclose (rtol = 1e-5, its default)
RtolInv == 100000

\* the value 1.0: entries are counted in tenths of the tolerance
Unit == 10 * ToleranceInv

Abs(a) == IF a < 0 THEN 0 - a ELSE a

\* a sum of products of two entries, brought back to 1/Unit (to nearest)
FxRound(sum) == (sum + (Unit \div 2)) \div Unit

\* np.isclose(a, b, atol=tolerance): |a - b| <= atol + rtol * |b|, false
\* whenever an operand is NaN
FxIsClose(a, b) ==
    /\ a # NaN
    /\ b # NaN
    /\ Abs(a - b) <= (Unit \div ToleranceInv) + (Abs(b) \div RtolInv)

\* np.eye(4)
FxEye4 ==
    << <<Unit, 0, 0, 0>>, <<0, Unit, 0, 0>>, <<0, 0, Unit, 0>>, <<0, 0, 0, Unit>> >>

\* one entry of a @ b for n x n operands
FxDot(a, b, i, j, n) ==
    IF \E k \in 1..n : a[i][k] = NaN \/ b[k][j] = NaN THEN NaN
    ELSE FxRound(SumFrom([k \in 1..n |-> a[i][k] * b[k][j]], 1))

\* np.matmul of 3x3 operands
FxMatMul3(a, b) ==
    << <<FxDot(a, b, 1, 1, 3), FxDot(a, b, 1, 2, 3), FxDot(a, b, 1, 3, 3)>>,
       <<FxDot(a, b, 2, 1, 3), FxDot(a, b, 2, 2, 3), FxDot(a, b, 2, 3, 3)>>,
       <<FxDot(a, b, 3, 1, 3), FxDot(a, b, 3, 2, 3), FxDot(a, b, 3, 3, 3)>> >>

\* a @ b for 4x4 operands
FxMatMul(a, b) ==
    << <<FxDot(a, b, 1, 1, 4), FxDot(a, b, 1, 2, 4), FxDot(a, b, 1, 3, 4), FxDot(a, b, 1, 4, 4)>>,
       <<FxDot(a, b, 2, 1, 4), FxDot(a, b, 2, 2, 4), FxDot(a, b, 2, 3, 4), FxDot(a, b, 2, 4, 4)>>,
       <<FxDot(a, b, 3, 1, 4), FxDot(a, b, 3, 2, 4), FxDot(a, b, 3, 3, 4), FxDot(a, b, 3, 4, 4)>>,
       <<FxDot(a, b, 4, 1, 4), FxDot(a, b, 4, 2, 4), FxDot(a, b, 4, 3, 4), FxDot(a, b, 4, 4, 4)>> >>

\* np.linalg.det of a 3x3 block: products of three entries, brought back to
\* 1/Unit after each multiplication
FxDet3(m) ==
    IF \E i \in 1..3 : \E j \in 1..3 : m[i][j] = NaN THEN NaN
    ELSE FxRound(m[1][1] * FxRound(m[2][2] * m[3][3] - m[2][3] * m[3][2])
                 - m[1][2] * FxRound(m[2][1] * m[3][3] - m[2][3] * m[3][1])
                 + m[1][3] * FxRound(m[2][1] * m[3][2] - m[2][2] * m[3][1]))

\* np.isclose(np.eye(3), m, atol=tolerance).all()
FxIsEye3(m) ==
    \A i \in 1..3 : \A j \in 1..3 : FxIsClose(IF i = j THEN Unit ELSE 0, m[i][j])

\* faulty variant of transform_is_valid_fx: no determinant check
transform_is_valid_fx_NoDet(t) ==
    IF ~IsShape44(t) THEN FALSE
    ELSE \E R \in {Rot(t)} :
            LET inverse_check == /\ FxIsEye3(FxMatMul3(Transpose3(R), R))
                                 /\ FxIsEye3(FxMatMul3(R, Transpose3(R)))
                last_row_check == /\ \A j \in 1..3 : FxIsClose(t[4][j], 0)
                                  /\ FxIsClose(t[4][4], Unit)
            IN inverse_check /\ last_row_check

\* transform_is_valid(t, tolerance=1e-3).  real_check is np.all(np.isreal(t)),
\* which is true of every float array, NaN entries included
transform_is_valid_fx(t) ==
    IF ~IsShape44(t) THEN FALSE
    ELSE \E R \in {Rot(t)} :
            LET real_check == TRUE
                inverse_check == /\ FxIsEye3(FxMatMul3(Transpose3(R), R))
                                 /\ FxIsEye3(FxMatMul3(R, Transpose3(R)))
                det_check == FxIsClose(FxDet3(R), Unit)
                last_row_check == /\ \A j \in 1..3 : FxIsClose(t[4][j], 0)
                                  /\ FxIsClose(t[4][4], Unit)
            IN real_check /\ inverse_check /\ det_check /\ last_row_check

\* p_inv = -R_inv @ p, entry i
FxPInv(t, i) ==
    IF \E k \in 1..3 : t[k][i] = NaN \/ t[k][4] = NaN THEN NaN
    ELSE FxRound(0 - (t[1][i] * t[1][4] + t[2][i] * t[2][4] + t[3][i] * t[3][4]))

\* transform_inverse(t)
transform_inverse_fx(t) ==
    IF ~transform_is_valid_fx(t) THEN [err |-> "ValueError", val |-> << >>]
    ELSE [err |-> "none",
          val |-> << <<t[1][1], t[2][1], t[3][1], FxPInv(t, 1)>>,
                     <<t[1][2], t[2][2], t[3][2], FxPInv(t, 2)>>,
                     <<t[1][3], t[2][3], t[3][3], FxPInv(t, 3)>>,
                     <<0, 0, 0, Unit>> >>]

\* compute_relative_pose(a, b)
compute_relative_pose_fx(a, b) ==
    IF ~transform_is_valid_fx(a) THEN [err |-> "ValueError", val |-> << >>]
    ELSE IF ~transform_is_valid_fx(b) THEN [err |-> "ValueError", val |-> << >>]
    ELSE [err |-> "none", val |-> FxMatMul(transform_inverse_fx(a).val, b)]

\* faulty variant of extract_displacement_fx: no validity check
extract_displacement_fx_NoCheck(T) ==
    IF ~IsShape44(T) THEN [err |-> "IndexError", val |-> << >>]
    ELSE [err |-> "none", val |-> <<T[1][4], T[2][4], T[3][4]>>]

\* extract_displacement(T)
extract_displacement_fx(T) ==
    IF ~transform_is_valid_fx(T) THEN [err |-> "ValueError", val |-> << >>]
    ELSE [err |-> "none", val |-> <<T[1][4], T[2][4], T[3][4]>>]

\* a / b for a component a and a norm b: 0.0 / 0.0 is nan (numpy warns, it
\* does not raise)
FxDivide(a, b) == IF b = 0 THEN NaN ELSE ((a * Unit) + (b \div 2)) \div b

\* quaternion_to_rotation_matrix(qx, qy, qz, qw).  With a zero norm all four
\* components become NaN, and so does every entry of R
quaternion_to_rotation_matrix_fx(q) ==
    LET norm == ISqrt(q[1] * q[1] + q[2] * q[2] + q[3] * q[3] + q[4] * q[4])
        qx == FxDivide(q[1], norm)
        qy == FxDivide(q[2], norm)
        qz == FxDivide(q[3], norm)
        qw == FxDivide(q[4], norm)
    IN IF norm = 0
       THEN << <<NaN, NaN, NaN>>, <<NaN, NaN, NaN>>, <<NaN, NaN, NaN>> >>
       ELSE << <<Unit - 2 * FxRound(qy * qy + qz * qz), 2 * FxRound(qx * qy - qz * qw),
                 2 * FxRound(qx * qz + qy * qw)>>,
               <<2 * FxRound(qx * qy + qz * qw), Unit - 2 * FxRound(qx * qx + qz * qz),
                 2 * FxRound(qy * qz - qx * qw)>>,
               <<2 * FxRound(qx * qz - qy * qw), 2 * FxRound(qy * qz + qx * qw),
                 Unit - 2 * FxRound(qx * qx + qy * qy)>> >>

\* pose_from_translation_quaternion(tx, ty, tz, qx, qy, qz, qw)
pose_from_translation_quaternion_fx(tr, q) ==
    CHOOSE T \in
      {<< <<R[1][1], R[1][2], R[1][3], tr[1]>>,
          <<R[2][1], R[2][2], R[2][3], tr[2]>>,
          <<R[3][1], R[3][2], R[3][3], tr[3]>>,
          <<0, 0, 0, Unit>> >>
       : R \in {quaternion_to_rotation_matrix_fx(q)}} : TRUE

\* Arguments.  Rigid transforms: the identity, a translation, a quarter turn
\* about z, a turn with cosine 0.6 and sine 0.8
FxTransX == << <<Unit, 0, 0, Unit>>, <<0, Unit, 0, 0>>, <<0, 0, Unit, 0>>, <<0, 0, 0, Unit>> >>
FxRotZT == << <<0, 0 - Unit, 0, 0>>, <<Unit, 0, 0, Unit>>, <<0, 0, Unit, 0>>, <<0, 0, 0, Unit>> >>
FxTilt ==
    << <<6 * ToleranceInv, 0 - 8 * ToleranceInv, 0, Unit>>,
       <<8 * ToleranceInv, 6 * ToleranceInv, 0, 2 * Unit>>,
       <<0, 0, Unit, 0>>,
       <<0, 0, 0, Unit>> >>

\* valid within the tolerance only: the x axis is 1.0005 long, the
\* translation is 10 m
FxNear ==
    << <<Unit + 5, 0, 0, 10 * Unit>>, <<0, Unit, 0, 0>>, <<0, 0, Unit, 0>>, <<0, 0, 0, Unit>> >>

\* valid within the tolerance only: the bottom row is [0, 0, 0.0005, 1], the
\* translation is 10 m
FxLooseRow ==
    << <<Unit, 0, 0, 10 * Unit>>, <<0, Unit, 0, 0>>, <<0, 0, Unit, 0>>, <<0, 0, 5, Unit>> >>

\* a reflection (determinant -1), a shear (determinant 1, not orthonormal),
\* a bottom row [0, 0, 0.002, 1]
FxRefl == << <<Unit, 0, 0, Unit>>, <<0, Unit, 0, 0>>, <<0, 0, 0 - Unit, 0>>, <<0, 0, 0, Unit>> >>
FxShear == << <<Unit, Unit, 0, 0>>, <<0, Unit, 0, 0>>, <<0, 0, Unit, 0>>, <<0, 0, 0, Unit>> >>
FxBadRow == << <<Unit, 0, 0, 0>>, <<0, Unit, 0, 0>>, <<0, 0, Unit, 0>>, <<0, 0, 20, Unit>> >>

\* a NaN in the translation, a NaN in the rotation block
FxNaNT == << <<Unit, 0, 0, NaN>>, <<0, Unit, 0, 0>>, <<0, 0, Unit, 0>>, <<0, 0, 0, Unit>> >>
FxNaNRot == << <<NaN, 0, 0, 0>>, <<0, Unit, 0, 0>>, <<0, 0, Unit, 0>>, <<0, 0, 0, Unit>> >>

\* arrays of shape (3, 3) and (4, 3)
Fx33 == << <<Unit, 0, 0>>, <<0, Unit, 0>>, <<0, 0, Unit>> >>
Fx43 == << <<Unit, 0, 0>>, <<0, Unit, 0>>, <<0, 0, Unit>>, <<0, 0, 0>> >>

FxPoses == {FxEye4, FxTransX, FxRotZT, FxTilt, FxNear, FxLooseRow,
            FxRefl, FxShear, FxBadRow, FxNaNT, FxNaNRot, Fx33, Fx43}

\* quaternions (qx, qy, qz, qw): no turn, a half turn about z, a third of a
\* turn about (1, 1, 1) given with norm 2, no turn given with norm 2, and
\* the zero quaternion
FxQuaternions ==
    {<<0, 0, 0, Unit>>, <<0, 0, Unit, 0>>, <<Unit, Unit, Unit, Unit>>,
     <<0, 0, 0, 2 * Unit>>, <<0, 0, 0, 0>>}

FxTranslations == {<<0, 0, 0>>, <<Unit, 0 - Unit, 2 * Unit>>}

\* a call of a function of transforms.py: its arguments and how it ended
TransformsCall(op, args, status) == [Call(op, -1, status) EXCEPT !.list = args]

\* what the call returned, and the arguments as the call left them (no
\* function of transforms.py writes to an argument)
Returned(ret, args) == [NoOut EXCEPT !.ret = ret, !.caller = args]

Status(res) == IF res.err = "none" THEN "ok" ELSE res.err

TransformIsValid(t) ==
    /\ last' = TransformsCall("transform_is_valid", <<t>>, "ok")
    /\ out' = Returned(transform_is_valid_fx(t), <<t>>)
    /\ UNCHANGED <<all_poses, keyframe_poses, frame_count, returned, rpc, r, cfg, mem>>

\* the result of the call before, when that was an inversion of a given matrix
InverseBefore ==
    IF last.op = "transform_inverse" /\ last.status = "ok" /\ last.list[1] \in FxPoses
    THEN {out.ret} ELSE {}

TransformInverse(t) ==
    \E res \in {transform_inverse_fx(t)} :
       /\ last' = TransformsCall("transform_inverse", <<t>>, Status(res))
       /\ out' = Returned(res.val, <<t>>)
       /\ UNCHANGED <<all_poses, keyframe_poses, frame_count, returned, rpc, r, cfg, mem>>

ComputeRelativePose(a, b) ==
    \E res \in {compute_relative_pose_fx(a, b)} :
       /\ last' = TransformsCall("compute_relative_pose", <<a, b>>, Status(res))
       /\ out' = Returned(res.val, <<a, b>>)
       /\ UNCHANGED <<all_poses, keyframe_poses, frame_count, returned, rpc, r, cfg, mem>>

ExtractDisplacement(T) ==
    \E res \in {extract_displacement_fx(T)} :
       /\ last' = TransformsCall("extract_displacement", <<T>>, Status(res))
       /\ out' = Returned(res.val, <<T>>)
       /\ UNCHANGED <<all_poses, keyframe_poses, frame_count, returned, rpc, r, cfg, mem>>

QuaternionToRotationMatrix(q) ==
    /\ last' = TransformsCall("quaternion_to_rotation_matrix", <<q>>, "ok")
    /\ out' = Returned(quaternion_to_rotation_matrix_fx(q), <<q>>)
    /\ UNCHANGED <<all_poses, keyframe_poses, frame_count, returned, rpc, r, cfg, mem>>

PoseFromTranslationQuaternion(tr, q) ==
    /\ last' = TransformsCall("pose_from_translation_quaternion", <<tr, q>>, "ok")
    /\ out' = Returned(pose_from_translation_quaternion_fx(tr, q), <<tr, q>>)
    /\ UNCHANGED <<all_poses, keyframe_poses, frame_count, returned, rpc, r, cfg, mem>>

\* SpecTransforms: calls of the functions of transforms.py, in any order
NextTransforms ==
    \/ \E t \in FxPoses : TransformIsValid(t)
    \/ \E t \in FxPoses \cup InverseBefore : TransformInverse(t)
    \/ \E a, b \in FxPoses : ComputeRelativePose(a, b)
    \/ \E t \in FxPoses : ExtractDisplacement(t)
    \/ \E q \in FxQuaternions : QuaternionToRotationMatrix(q)
    \/ \E tr \in FxTranslations, q \in FxQuaternions : PoseFromTranslationQuaternion(tr, q)

SpecTransforms == Init /\ [][NextTransforms]_vars

(***************************************************************************)
(* filippo/spatial_memory.py: keyframes with planar poses (x, y, theta).   *)
(* Coordinates and radii are whole metres, so that a comparison of         *)
(* np.sqrt(d2) with a radius is the comparison of d2 with its square.      *)
(***************************************************************************)
\* _get_or_create_room(pose): the first room whose centre is closer than
\* room_threshold, otherwise a new room centred at the pose
get_or_create_room(m, pose) ==
    LET x == pose[1]
        y == pose[2]
        close == {n \in 1..Len(m.room_centers) :
                    LET cx == m.room_centers[n].cx
                        cy == m.room_centers[n].cy
                    IN (x - cx) * (x - cx) + (y - cy) * (y - cy)
                         < m.room_threshold * m.room_threshold}
    IN IF close # {}
       THEN [room_id |-> m.room_centers[CHOOSE n \in close : \A k \in close : n <= k].room_id,
             mem |-> m]
       ELSE [room_id |-> m.room_counter,
             mem |-> [m EXCEPT !.room_centers =
                                   Append(@, [room_id |-> m.room_counter, cx |-> x, cy |-> y]),
                               !.room_counter = @ + 1]]

\* get_nearby_keyframes(query_pose, radius): line 91 computes
\* np.sqrt((qx - kx) ** 2 + (qy - qy) ** 2)
get_nearby_keyframes(m, query_pose, radius) ==
    LET qx == query_pose[1]
        qy == query_pose[2]
    IN SelectSeq(m.keyframes,
                 LAMBDA kf : LET kx == kf.pose[1]
                                 ky == kf.pose[2]
                             IN (qx - kx) * (qx - kx) + (qy - qy) * (qy - qy) <= radius * radius)

\* has_visited_location(query_pose, threshold)
has_visited_location(m, query_pose, threshold) ==
    Len(get_nearby_keyframes(m, query_pose, threshold)) > 0

\* a call on the memory module: its arguments and how it ended
MemoryCall(op, args) == [Call(op, -1, "ok") EXCEPT !.list = args]

\* update(image, pose): one more entry of pose_history
Update(image, pose) ==
    /\ mem' = [mem EXCEPT !.pose_history = Append(@, [timestamp |-> mem.clock, pose |-> pose]),
                          !.clock = @ + 1]
    /\ last' = MemoryCall("update", <<image, pose>>)
    /\ out' = NoOut
    /\ UNCHANGED <<all_poses, keyframe_poses, frame_count, returned, rpc, r, cfg>>

\* add_keyframe(image, pose): returns the keyframe it appended
AddKeyframe(image, pose) ==
    \E room \in {get_or_create_room(mem, pose)} :
    \E kf \in {[timestamp |-> mem.clock, image |-> image, pose |-> pose,
                room_id |-> room.room_id]} :
       /\ mem' = [room.mem EXCEPT !.keyframes = Append(@, kf), !.clock = @ + 1]
       /\ last' = MemoryCall("add_keyframe", <<image, pose>>)
       /\ out' = [NoOut EXCEPT !.ret = kf]
       /\ UNCHANGED <<all_poses, keyframe_poses, frame_count, returned, rpc, r, cfg>>

\* a call of get_nearby_keyframes
GetNearbyKeyframes(query_pose, radius) ==
    /\ last' = MemoryCall("get_nearby_keyframes", <<query_pose, radius>>)
    /\ out' = [NoOut EXCEPT !.ret = get_nearby_keyframes(mem, query_pose, radius)]
    /\ UNCHANGED <<all_poses, keyframe_poses, frame_count, returned, rpc, r, cfg, mem>>

\* a call of has_visited_location
HasVisitedLocation(query_pose, threshold) ==
    /\ last' = MemoryCall("has_visited_location", <<query_pose, threshold>>)
    /\ out' = [NoOut EXCEPT !.ret = has_visited_location(mem, query_pose, threshold)]
    /\ UNCHANGED <<all_poses, keyframe_poses, frame_count, returned, rpc, r, cfg, mem>>

\* planar poses (x, y, theta): the origin, two places on the y axis and one
\* on the x axis
MemoryPoses == {<<0, 0, 0>>, <<0, 1, 0>>, <<0, 3, 0>>, <<2, 0, 0>>}

\* radii and thresholds of the queries
MemoryRadii == {1, 2}

\* SpecMemory: calls on a SpatialMemoryModule, in any order
NextMemory ==
    \/ \E p \in MemoryPoses : mem.clock < MemoryCalls /\ Update("image", p)
    \/ \E p \in MemoryPoses : mem.clock < MemoryCalls /\ AddKeyframe("image", p)
    \/ \E q \in MemoryPoses, radius \in MemoryRadii : GetNearbyKeyframes(q, radius)
    \/ \E q \in MemoryPoses, radius \in MemoryRadii : HasVisitedLocation(q, radius)

SpecMemory == Init /\ [][NextMemory]_vars

(***************************************************************************)
(* Properties.                                                             *)
(***************************************************************************)
AddOps == {"add_frame", "add_frame_with_pose"}

OtherOps == {"promote_to_keyframe", "remove_keyframe", "get_current_pose",
             "generate_map", "watermark_keyframes"}

\* C1: add_frame and add_frame_with_pose draw their ids from one counter that
\* starts at 0: an id handed out is the counter's value, which the call
\* advances by one; the ids returned so far are non-negative, strictly
\* increasing (so none is returned twice) and below the counter; promote,
\* remove, generate_map, watermark_keyframes (and get_current_pose) leave the
\* counter alone.
C1_IdsStrictlyIncreasing ==
    /\ frame_count = 0
    /\ [](\A i \in 1..Len(returned) :
            /\ returned[i] >= 0
            /\ returned[i] < frame_count
            /\ \A j \in 1..(i - 1) : returned[j] < returned[i])
    /\ [][/\ (last'.op \in AddOps /\ last'.status = "ok")
             => /\ last'.fid = frame_count
                /\ frame_count' = frame_count + 1
                /\ returned' = Append(returned, frame_count)
          /\ last'.op \in OtherOps => frame_count' = frame_count /\ returned' = returned]_vars

\* C1 witness: three ids were returned, the first by add_frame_with_pose (only
\* it can store a non-finite pose), the last by add_frame.
C1_Witness ==
    /\ Len(returned) = 3
    /\ all_poses[returned[1]] = NaNT
    /\ last.op = "add_frame"
    /\ last.status = "ok"
    /\ keyframe_poses # << >>

\* C2 (as claimed): every pose held in the all-frames map and in the keyframe
\* map passes transform_is_valid.
C2_StoredPosesValid ==
    /\ \A k \in DOMAIN all_poses : transform_is_valid(all_poses[k])
    /\ \A n \in 1..Len(keyframe_poses) : transform_is_valid(keyframe_poses[n].pose)

\* C3: promote_to_keyframe fails with ValueError exactly when its frame_id is
\* not in the all-frames map, and then the all-frames map, the keyframe map
\* and the counter are as before.
C3_PromoteUnknownFails ==
    [][last'.op = "promote_to_keyframe"
       => /\ (last'.status = "ValueError") <=> (last'.fid \notin DOMAIN all_poses)
          /\ last'.status \in {"ok", "ValueError"}
          /\ last'.status = "ValueError" => UNCHANGED store]_vars

\* C3 witness: a promote of an unknown id has failed while frames and a
\* keyframe were stored.
C3_Witness ==
    /\ last.op = "promote_to_keyframe"
    /\ last.status = "ValueError"
    /\ last.fid \notin DOMAIN all_poses
    /\ DOMAIN all_poses # {}
    /\ keyframe_poses # << >>

\* C4: promoting an id that is already a keyframe changes nothing in the
\* keyframe map (same ids, same order, same poses), and after any promote the
\* keyframe's pose is the pose the all-frames map holds for that id.
C4_PromoteIdempotent ==
    [][(last'.op = "promote_to_keyframe" /\ last'.status = "ok")
       => /\ last'.fid \in KeySet(keyframe_poses')
          /\ DictGet(keyframe_poses', last'.fid) = all_poses'[last'.fid]
          /\ last'.fid \in KeySet(keyframe_poses) => keyframe_poses' = keyframe_poses]_vars

\* C4 witness: a keyframe that is not the last entry has been promoted again.
C4_Witness ==
    /\ last.op = "promote_to_keyframe"
    /\ last.status = "ok"
    /\ last.was_keyframe
    /\ Len(keyframe_poses) >= 2
    /\ keyframe_poses[1].id = last.fid

\* C5: remove_keyframe never fails and touches the keyframe map only: the id
\* is gone from it, every other keyframe is still there with its pose and in
\* the same relative order, and nothing changes when the id was no keyframe.
C5_RemoveKeyframeOnly ==
    [][last'.op = "remove_keyframe"
       => /\ last'.status = "ok"
          /\ all_poses' = all_poses
          /\ frame_count' = frame_count
          /\ KeySet(keyframe_poses') = KeySet(keyframe_poses) \ {last'.fid}
          /\ Len(keyframe_poses') = Cardinality(KeySet(keyframe_poses'))
          /\ \A n \in 1..Len(keyframe_poses') :
                keyframe_poses'[n].pose = DictGet(keyframe_poses, keyframe_poses'[n].id)
          /\ \A m, n \in 1..Len(keyframe_poses') :
                m < n => DictIndex(keyframe_poses, keyframe_poses'[m].id)
                          < DictIndex(keyframe_poses, keyframe_poses'[n].id)
          /\ last'.fid \notin KeySet(keyframe_poses) => keyframe_poses' = keyframe_poses]_vars

\* C5 witness: a keyframe was removed and two keyframes remain.
C5_Witness ==
    /\ last.op = "remove_keyframe"
    /\ last.was_keyframe
    /\ last.fid \in DOMAIN all_poses
    /\ Len(keyframe_poses) = 2

\* C6: get_current_pose returns the identity when no frame was ever stored,
\* and otherwise the pose stored for the id returned last, whatever was
\* promoted or removed and in which order.
C6_CurrentPoseIsLatest ==
    last.op = "get_current_pose"
    => out.pose = IF returned = << >> THEN Eye4
                  ELSE all_poses[returned[Len(returned)]]

\* C6 witness: the current pose was read while the keyframe promoted last is
\* an older frame with another pose.
C6_Witness ==
    /\ last.op = "get_current_pose"
    /\ Len(returned) >= 2
    /\ keyframe_poses # << >>
    /\ keyframe_poses[Len(keyframe_poses)].id # returned[Len(returned)]
    /\ keyframe_poses[Len(keyframe_poses)].pose # out.pose

\* C7: the keyframe ids are always a subset of the all-frames ids, and no
\* step removes an id from the all-frames map or changes its pose.
C7_KeyframesSubsetOfFrames ==
    /\ [](KeySet(keyframe_poses) \subseteq DOMAIN all_poses)
    /\ [][/\ DOMAIN all_poses \subseteq DOMAIN all_poses'
          /\ \A k \in DOMAIN all_poses : all_poses'[k] = all_poses[k]]_vars

\* C7 witness: after a keyframe was removed, one frame is tracked only and
\* another one is promoted.
C7_Witness ==
    /\ last.op = "remove_keyframe"
    /\ last.was_keyframe
    /\ last.fid \in DOMAIN all_poses
    /\ last.fid \notin KeySet(keyframe_poses)
    /\ keyframe_poses # << >>

\* the pose generate_map takes as current: that of the id returned last
CurrentOfStore == IF returned = << >> THEN Eye4 ELSE all_poses[returned[Len(returned)]]

\* some keyframe cannot be laid out: the current pose, the keyframe's pose or
\* their relative pose fails transform_is_valid
LayoutFails ==
    \E n \in 1..Len(keyframe_poses) :
        \/ ~transform_is_valid(CurrentOfStore)
        \/ ~transform_is_valid(keyframe_poses[n].pose)
        \/ ~transform_is_valid(MatMul(InverseOf(CurrentOfStore), keyframe_poses[n].pose))

\* C8: generate_map either returns an image with a colour and a placement for
\* every keyframe, or raises ValueError; it raises exactly when a keyframe
\* exists that cannot be laid out, and then no canvas was created and nothing
\* is returned; in both outcomes the all-frames map, the keyframe map and the
\* counter are as before the call.
C8_NoPartialRender ==
    /\ [](last.op = "generate_map"
          => /\ last.status \in {"ok", "ValueError"}
             /\ (last.status = "ValueError") <=> LayoutFails
             /\ last.status = "ValueError"
                => ~last.canvas /\ out = NoOut /\ keyframe_poses # << >>
             /\ last.status = "ok"
                => /\ last.canvas
                   /\ out.placed = DictKeys(keyframe_poses)
                   /\ [n \in 1..Len(out.colors) |-> out.colors[n].id] = DictKeys(keyframe_poses))
    /\ [][last'.op = "generate_map" => UNCHANGED store]_vars

\* C8 witness: generate_map has raised on the second keyframe, whose pose is
\* no rigid transform, the first keyframe's pose being one.
C8_Witness ==
    /\ last.op = "generate_map"
    /\ last.status = "ValueError"
    /\ Len(keyframe_poses) >= 2
    /\ transform_is_valid(CurrentOfStore)
    /\ transform_is_valid(keyframe_poses[1].pose)
    /\ ~transform_is_valid(keyframe_poses[2].pose)

\* the palette of _get_keyframe_color after whitewashing, entry by entry
ExpectedPalette ==
    << <<128, 128, 241>>, <<147, 213, 156>>, <<224, 186, 114>>, <<141, 186, 249>>,
       <<213, 131, 194>>, <<246, 246, 153>>, <<241, 142, 246>>, <<147, 249, 230>> >>

\* C9: the colour map of a render has exactly the keyframe ids as keys, in
\* insertion order, the keyframe at 0-based position i has palette entry
\* i mod 8 (so positions i and i + 8 share a colour), and watermark_keyframes
\* called with that map succeeds on every list of ids that were keyframes at
\* the render, stamping each image with its id's colour.
C9_ColoursByInsertionOrder ==
    /\ (last.op = "generate_map" /\ last.status = "ok")
       => /\ Len(out.colors) = Len(keyframe_poses)
          /\ \A n \in 1..Len(out.colors) :
                /\ out.colors[n].id = keyframe_poses[n].id
                /\ out.colors[n].color = ExpectedPalette[((n - 1) % 8) + 1]
                /\ n + 8 <= Len(out.colors) => out.colors[n + 8].color = out.colors[n].color
    /\ (/\ last.op = "watermark_keyframes"
        /\ \A n \in 1..Len(last.list) : last.list[n] \in KeySet(keyframe_poses))
       => /\ last.status = "ok"
          /\ Len(out.images) = Len(last.list)
          /\ \A n \in 1..Len(last.list) :
                out.images[n].color
                  = ExpectedPalette[((DictIndex(keyframe_poses, last.list[n]) - 1) % 8) + 1]

\* C9 witness: nine keyframes were rendered and watermarked, frame 0 being the
\* ninth in insertion order.
C9_Witness ==
    /\ last.op = "watermark_keyframes"
    /\ last.status = "ok"
    /\ Len(out.images) = 9
    /\ Len(out.colors) = 9
    /\ out.colors[9].id = 0

\* C10 (as claimed): a render interleaved with add_frame_with_pose,
\* promote_to_keyframe and remove_keyframe still completes, the only failure
\* being the ValueError of the layout, and places exactly the keyframes its
\* layout had positions for.
C10_RenderAtomic ==
    last.op = "generate_map"
    => /\ last.status \in {"ok", "ValueError"}
       /\ last.status = "ValueError" => ~last.canvas
       /\ last.status = "ok" => out.placed = out.laid_out

\* C11: watermark_keyframes raises ValueError exactly when some id of the
\* input list has no entry in the colour map, and then the caller gets no
\* watermarked image at all, not even for the pairs before the offending one.
C11_WatermarkNotFound ==
    last.op = "watermark_keyframes"
    => /\ last.status \in {"ok", "ValueError"}
       /\ last.status = "ValueError"
          <=> \E n \in 1..Len(last.list) : last.list[n] \notin ColorKeys(out.colors)
       /\ last.status = "ValueError" => out.images = << >>

\* C11 witness: the first id of the list had a colour, the second had none.
C11_Witness ==
    /\ last.op = "watermark_keyframes"
    /\ last.status = "ValueError"
    /\ Len(last.list) = 2
    /\ last.list[1] \in ColorKeys(out.colors)
    /\ last.list[2] \notin ColorKeys(out.colors)

\* C12: watermark_keyframes leaves the pose store, the colour map and the
\* caller's images as they were; when it succeeds it returns one new image
\* per pair, in input order, the k-th being the k-th input image stamped with
\* the colour of its id and with the label k, whatever the id.
C12_WatermarkPure ==
    [][last'.op = "watermark_keyframes"
       => /\ store' = store
          /\ out'.colors = out.colors
          /\ Len(out'.caller) = Len(last'.list)
          /\ \A k \in 1..Len(last'.list) :
                out'.caller[k] = [fid |-> last'.list[k], image |-> RawImage(last'.list[k])]
          /\ last'.status = "ok"
             => /\ Len(out'.images) = Len(last'.list)
                /\ \A k \in 1..Len(last'.list) :
                      out'.images[k] = [image |-> last'.list[k],
                                        color |-> ColorOf(out.colors, last'.list[k]),
                                        label |-> k]]_vars

\* C12 witness: frame 1 was watermarked first and frame 0 second, so labels
\* and ids differ.
C12_Witness ==
    /\ last.op = "watermark_keyframes"
    /\ last.status = "ok"
    /\ last.list = <<1, 0>>
    /\ out.images[1].label = 1
    /\ out.images[2].label = 2

\* centre of the robot marker
Center == cfg.image_size \div 2

\* two placed circles (x, y, radius) do not collide
Apart(c1, c2) ==
    (c1[1] - c2[1]) * (c1[1] - c2[1]) + (c1[2] - c2[2]) * (c1[2] - c2[2])
      >= (c1[3] + c2[3]) * (c1[3] + c2[3])

\* C13: with the default configuration and overlap avoidance on, any two
\* keyframes of a render whose unresolved pixel position is the centre of the
\* robot marker end at two different positions that collide neither with each
\* other nor with the robot marker; when they are the only keyframes they get
\* the first and the second palette colour, whitewashed.
C13_CentreKeyframesSeparated ==
    (last.op = "generate_map" /\ last.status = "ok" /\ cfg = DefaultConfig)
    => /\ \A i, j \in 1..Len(out.unresolved) :
             (i < j /\ out.unresolved[i] = <<Center, Center>>
                    /\ out.unresolved[j] = <<Center, Center>>)
             => /\ <<out.circles[i + 1][1], out.circles[i + 1][2]>>
                     # <<out.circles[j + 1][1], out.circles[j + 1][2]>>
                /\ Apart(out.circles[i + 1], out.circles[j + 1])
                /\ Apart(out.circles[i + 1], out.circles[1])
                /\ Apart(out.circles[j + 1], out.circles[1])
       /\ (Len(out.unresolved) = 2 /\ out.unresolved[1] = <<Center, Center>>
                                   /\ out.unresolved[2] = <<Center, Center>>)
          => /\ out.colors[1].color = <<128, 128, 241>>
             /\ out.colors[2].color = <<147, 213, 156>>

\* C13 witness: exactly two keyframes, both at the centre before the overlap
\* resolution; the spiral puts the first to the right of the robot marker and
\* the second below and to the right of it.
C13_Witness ==
    /\ last.op = "generate_map"
    /\ last.status = "ok"
    /\ cfg = DefaultConfig
    /\ out.unresolved = << <<256, 256>>, <<256, 256>> >>
    /\ out.circles = << <<256, 256, 18>>, <<304, 256, 16>>, <<289, 289, 16>> >>

\* distance of keyframe n from the newest frame, both being on the x axis
AxisDistance(n) ==
    LET x == keyframe_poses[n].pose[1][4]
        x0 == all_poses[frame_count - 1][1][4]
    IN IF x >= x0 THEN x - x0 ELSE x0 - x

\* ids of the keyframes farther than mean + k * std: with n distances d_i,
\* S their sum and Q the sum of their squares, n * d_i - S > k * sqrt(n * Q - S * S)
FarKeyframes(k) ==
    LET n == Len(keyframe_poses)
        S == SumFrom([m \in 1..n |-> AxisDistance(m)], 1)
        Q == SumFrom([m \in 1..n |-> AxisDistance(m) * AxisDistance(m)], 1)
    IN {keyframe_poses[m].id : m \in {j \in 1..n :
            /\ n * AxisDistance(j) - S > 0
            /\ (n * AxisDistance(j) - S) * (n * AxisDistance(j) - S) > k * k * (n * Q - S * S)}}

\* C14: the outlier set of a layout is empty with fewer than 5 keyframes,
\* whatever the strength k, and when all distances are equal (std below
\* 1e-6); otherwise it is the set of keyframes with d_i > mean + k * std.  For
\* the distances 1, 1, 1, 1, 1, 100 and k = 2 it is the keyframe at 100 m.
C14_OutlierSet ==
    (last.op = "generate_map" /\ last.status = "ok")
    => /\ Len(keyframe_poses) < 5 => out.outlier_ids = {}
       /\ (\A m, n \in 1..Len(keyframe_poses) : AxisDistance(m) = AxisDistance(n))
          => out.outlier_ids = {}
       /\ Len(keyframe_poses) >= 5
          => out.outlier_ids = FarKeyframes(cfg.outlier_std_threshold)
       /\ ([n \in 1..Len(keyframe_poses) |-> AxisDistance(n)] = <<1, 1, 1, 1, 1, 100>>
           /\ cfg.outlier_std_threshold = 2)
          => out.outlier_ids = {keyframe_poses[6].id}

\* C14 witness: five keyframes at 1 m and one at 100 m from the newest frame,
\* strength 2; the far one is the outlier and the scale is that of 1 m.
C14_Witness ==
    /\ last.op = "generate_map"
    /\ last.status = "ok"
    /\ cfg.outlier_std_threshold = 2
    /\ Len(keyframe_poses) = 6
    /\ [n \in 1..6 |-> AxisDistance(n)] = <<1, 1, 1, 1, 1, 100>>
    /\ out.outlier_ids = {5}
    /\ out.scale = [num |-> 242, den2 |-> 1]

\* every entry of an array is a finite number
FxFinite(t) == \A i \in 1..Len(t) : \A j \in 1..Len(t[i]) : t[i][j] # NaN

\* two arrays of one shape agree entry by entry within the tolerance
FxCloseMatrix(a, b) ==
    /\ Len(a) = Len(b)
    /\ \A i \in 1..Len(a) :
          /\ Len(a[i]) = Len(b[i])
          /\ \A j \in 1..Len(a[i]) : FxIsClose(a[i][j], b[i][j])

\* a pose of the data model: accepted by transform_is_valid, all entries finite
ValidPose(t) == FxFinite(t) /\ transform_is_valid_fx(t)

\* C15 (as claimed): the inverse of a valid transform T is a valid transform,
\* and inverting it again gives T back within the tolerance.
C15_InverseInvolution ==
    (last.op = "transform_inverse" /\ last.status = "ok" /\ FxFinite(last.list[1]))
    => /\ transform_is_valid_fx(out.ret)
       /\ transform_inverse_fx(out.ret).err = "none"
       /\ FxCloseMatrix(transform_inverse_fx(out.ret).val, last.list[1])

\* C16 (as claimed): the pose of a valid transform relative to itself is the
\* identity within the tolerance, so its displacement is (0, 0).
C16_RelativeToSelfIsIdentity ==
    (/\ last.op = "compute_relative_pose"
     /\ last.list[1] = last.list[2]
     /\ ValidPose(last.list[1]))
    => /\ last.status = "ok"
       /\ FxCloseMatrix(out.ret, FxEye4)
       /\ extract_displacement_fx(out.ret).err = "none"
       /\ FxIsClose(extract_displacement_fx(out.ret).val[1], 0)
       /\ FxIsClose(extract_displacement_fx(out.ret).val[2], 0)

\* the bottom row of a 4x4 array is [0, 0, 0, 1] within the tolerance
BottomRowOk(t) == (\A j \in 1..3 : FxIsClose(t[4][j], 0)) /\ FxIsClose(t[4][4], Unit)

\* the rotation block of a 4x4 array is orthonormal within the tolerance
Orthonormal(t) ==
    /\ FxIsEye3(FxMatMul3(Transpose3(Rot(t)), Rot(t)))
    /\ FxIsEye3(FxMatMul3(Rot(t), Transpose3(Rot(t))))

\* C17: transform_is_valid returns false for an array that is not 4x4, for a
\* rotation block of determinant -1, for a rotation block that is not
\* orthonormal within the tolerance, and for a bottom row that is farther
\* from [0, 0, 0, 1] than the tolerance.
C17_InvalidRejected ==
    last.op = "transform_is_valid"
    => /\ ~IsShape44(last.list[1]) => out.ret = FALSE
       /\ IsShape44(last.list[1])
          => /\ FxIsClose(FxDet3(Rot(last.list[1])), 0 - Unit) => out.ret = FALSE
             /\ ~Orthonormal(last.list[1]) => out.ret = FALSE
             /\ ~BottomRowOk(last.list[1]) => out.ret = FALSE

\* C17 witness: a reflection, orthonormal with determinant -1 and a proper
\* bottom row, was rejected.
C17_Witness ==
    /\ last.op = "transform_is_valid"
    /\ last.list = <<FxRefl>>
    /\ Orthonormal(FxRefl)
    /\ BottomRowOk(FxRefl)
    /\ out.ret = FALSE

\* C18 (as claimed): a 4x4 array with a non-finite entry is not accepted by
\* transform_is_valid.
C18_NonFiniteRejected ==
    (last.op = "transform_is_valid" /\ ~FxFinite(last.list[1])) => out.ret = FALSE

\* C19: transform_inverse, compute_relative_pose and extract_displacement
\* raise ValueError exactly when an argument fails transform_is_valid; on
\* valid arguments they return a result (extract_displacement the
\* translation column), and in either case the arguments are left as given.
C19_InvalidArgumentRaises ==
    last.op \in {"transform_inverse", "compute_relative_pose", "extract_displacement"}
    => /\ (\E n \in 1..Len(last.list) : ~transform_is_valid_fx(last.list[n]))
          => (last.status = "ValueError" /\ out.ret = << >>)
       /\ (\A n \in 1..Len(last.list) : transform_is_valid_fx(last.list[n]))
          => (last.status = "ok" /\ out.ret # << >>)
       /\ (last.op = "extract_displacement" /\ last.status = "ok")
          => out.ret = <<last.list[1][1][4], last.list[1][2][4], last.list[1][3][4]>>
       /\ out.caller = last.list

\* C19 witness: compute_relative_pose raised on a valid first and an invalid
\* second argument.
C19_Witness ==
    /\ last.op = "compute_relative_pose"
    /\ last.list = <<FxTransX, FxRefl>>
    /\ transform_is_valid_fx(FxTransX)
    /\ last.status = "ValueError"

\* C20 (as claimed): for a quaternion of norm zero quaternion_to_rotation_matrix
\* and pose_from_translation_quaternion report an error and return no matrix
\* with NaN entries.
C20_ZeroQuaternionRejected ==
    (/\ last.op \in {"quaternion_to_rotation_matrix", "pose_from_translation_quaternion"}
     /\ last.list[Len(last.list)] = <<0, 0, 0, 0>>)
    => (last.status # "ok" /\ FxFinite(out.ret))

(***************************************************************************)
(* C21: a malformed MapConfig is reported as InvalidInput and is never     *)
(* used by generate_map: no call of generate_map completes under a         *)
(* configuration with a non-positive field or with a canvas side that does *)
(* not exceed 2 * border + 2 * max(keyframe_radius, robot_radius).         *)
(***************************************************************************)
WellFormedConfig(c) ==
    /\ c.image_size > 0
    /\ c.border_size > 0
    /\ c.outlier_std_threshold > 0
    /\ c.keyframe_radius > 0
    /\ c.robot_radius > 0
    /\ c.image_size > 2 * c.border_size
                        + 2 * (IF c.keyframe_radius > c.robot_radius
                               THEN c.keyframe_radius ELSE c.robot_radius)

C21_MalformedConfigRejected ==
    (last.op = "generate_map" /\ last.status = "ok") => WellFormedConfig(cfg)

(***************************************************************************)
(* C22: get_nearby_keyframes(query_pose, radius) returns exactly the       *)
(* stored keyframes whose planar distance to the query is at most radius,  *)
(* in insertion order, and has_visited_location is true exactly when there *)
(* is such a keyframe (so a keyframe with the same x and a y further away  *)
(* than the radius is not returned).                                       *)
(***************************************************************************)
PlanarD2(a, b) == (a[1] - b[1]) * (a[1] - b[1]) + (a[2] - b[2]) * (a[2] - b[2])

KeyframesWithin(q, radius) ==
    SelectSeq(mem.keyframes, LAMBDA kf : PlanarD2(q, kf.pose) <= radius * radius)

C22_NearbyByPlanarDistance ==
    /\ last.op = "get_nearby_keyframes" =>
          out.ret = KeyframesWithin(last.list[1], last.list[2])
    /\ last.op = "has_visited_location" =>
          out.ret = (Len(KeyframesWithin(last.list[1], last.list[2])) > 0)

(***************************************************************************)
(* C23: under a well-formed configuration, with collision avoidance on or  *)
(* off, both recorded pixel coordinates of every keyframe marker lie in    *)
(* [border + keyframe_radius, canvas_side - border - keyframe_radius],     *)
(* also when the position came from the ring search or from the fallback.  *)
(***************************************************************************)
ClampLo == cfg.border_size + cfg.keyframe_radius

ClampHi == cfg.image_size - cfg.border_size - cfg.keyframe_radius

\* the render that has just returned
Rendered == last.op = "generate_map" /\ last.status = "ok"

\* the n-th keyframe marker of that render (circle 1 is the robot)
Marker(n) == out.circles[n + 1]

\* what _resolve_overlap returned for the n-th keyframe of that render
Resolved(n) ==
    resolve_overlap(out.unresolved[n][1], out.unresolved[n][2],
                    SubSeq(out.circles, 1, n), cfg.keyframe_radius)

C23_MarkersInsideCanvas ==
    (Rendered /\ WellFormedConfig(cfg)) =>
        \A n \in 1..Len(out.placed) :
            /\ ClampLo <= Marker(n)[1] /\ Marker(n)[1] <= ClampHi
            /\ ClampLo <= Marker(n)[2] /\ Marker(n)[2] <= ClampHi

\* a render where the ring search left the canvas and the second clamp
\* brought the marker back
C23_Witness ==
    /\ Rendered
    /\ WellFormedConfig(cfg)
    /\ cfg.avoid_overlap
    /\ \E n \in 1..Len(out.placed) :
          /\ Resolved(n) # out.unresolved[n]
          /\ Resolved(n)[1] > ClampHi
          /\ Marker(n)[1] = ClampHi

(***************************************************************************)
(* C24: with collision avoidance on, when _resolve_overlap returned        *)
(* through its initial check or through a free ring sample for every       *)
(* keyframe, the positions recorded after the second clamp are free of     *)
(* collisions: no marker is closer than 2 * keyframe_radius to another     *)
(* marker, nor closer than keyframe_radius + robot_radius to the robot.    *)
(***************************************************************************)
\* the circles placed before the n-th keyframe: the robot and n - 1 markers
Before(n) == SubSeq(out.circles, 1, n)

\* _resolve_overlap reached its last line for the n-th keyframe
ViaFallback(n) ==
    LET px == out.unresolved[n][1]
        py == out.unresolved[n][2]
    IN /\ has_collision(px, py, Before(n), cfg.keyframe_radius)
       /\ \A ring \in 1..Len(SpiralOffsets(cfg.keyframe_radius)) :
             ~RingSearch(px, py, Before(n), cfg.keyframe_radius, ring, 1).found

C24_ResolvedPositionsCollisionFree ==
    (/\ Rendered
     /\ WellFormedConfig(cfg)
     /\ cfg.avoid_overlap
     /\ \A n \in 1..Len(out.placed) : ~ViaFallback(n))
    => \A n \in 1..Len(out.placed) :
          ~has_collision(Marker(n)[1], Marker(n)[2], Before(n), cfg.keyframe_radius)

(***************************************************************************)
(* C25: when the candidate collides, _resolve_overlap examines rings 1 to  *)
(* 10 in increasing order, ring r at radius r * marker_radius with         *)
(* max(8, 8r) evenly spaced angles from angle 0 on, and returns the first  *)
(* sample that collides with no placed circle; the fallback is reached     *)
(* only after all samples of all 10 rings collide.                         *)
(***************************************************************************)
\* the samples (int(dist * cos), int(dist * sin)) of a tenth ring: 80 angles
\* at distance 160 for step 16, at distance 20 for step 2
TenthRing16 ==
    <<
      <<160, 0>>, <<159, 12>>, <<158, 25>>, <<155, 37>>, <<152, 49>>,
      <<147, 61>>, <<142, 72>>, <<136, 83>>, <<129, 94>>, <<121, 103>>,
      <<113, 113>>, <<103, 121>>, <<94, 129>>, <<83, 136>>, <<72, 142>>,
      <<61, 147>>, <<49, 152>>, <<37, 155>>, <<25, 158>>, <<12, 159>>,
      <<0, 160>>, <<-12, 159>>, <<-25, 158>>, <<-37, 155>>, <<-49, 152>>,
      <<-61, 147>>, <<-72, 142>>, <<-83, 136>>, <<-94, 129>>, <<-103, 121>>,
      <<-113, 113>>, <<-121, 103>>, <<-129, 94>>, <<-136, 83>>,
      <<-142, 72>>, <<-147, 61>>, <<-152, 49>>, <<-155, 37>>, <<-158, 25>>,
      <<-159, 12>>, <<-160, 0>>, <<-159, -12>>, <<-158, -25>>,
      <<-155, -37>>, <<-152, -49>>, <<-147, -61>>, <<-142, -72>>,
      <<-136, -83>>, <<-129, -94>>, <<-121, -103>>, <<-113, -113>>,
      <<-103, -121>>, <<-94, -129>>, <<-83, -136>>, <<-72, -142>>,
      <<-61, -147>>, <<-49, -152>>, <<-37, -155>>, <<-25, -158>>,
      <<-12, -159>>, <<0, -160>>, <<12, -159>>, <<25, -158>>, <<37, -155>>,
      <<49, -152>>, <<61, -147>>, <<72, -142>>, <<83, -136>>, <<94, -129>>,
      <<103, -121>>, <<113, -113>>, <<121, -103>>, <<129, -94>>,
      <<136, -83>>, <<142, -72>>, <<147, -61>>, <<152, -49>>, <<155, -37>>,
      <<158, -25>>, <<159, -12>>
    >>

TenthRing2 ==
    <<
      <<20, 0>>, <<19, 1>>, <<19, 3>>, <<19, 4>>, <<19, 6>>, <<18, 7>>,
      <<17, 9>>, <<17, 10>>, <<16, 11>>, <<15, 12>>, <<14, 14>>, <<12, 15>>,
      <<11, 16>>, <<10, 17>>, <<9, 17>>, <<7, 18>>, <<6, 19>>, <<4, 19>>,
      <<3, 19>>, <<1, 19>>, <<0, 20>>, <<-1, 19>>, <<-3, 19>>, <<-4, 19>>,
      <<-6, 19>>, <<-7, 18>>, <<-9, 17>>, <<-10, 17>>, <<-11, 16>>,
      <<-12, 15>>, <<-14, 14>>, <<-15, 12>>, <<-16, 11>>, <<-17, 10>>,
      <<-17, 9>>, <<-18, 7>>, <<-19, 6>>, <<-19, 4>>, <<-19, 3>>,
      <<-19, 1>>, <<-20, 0>>, <<-19, -1>>, <<-19, -3>>, <<-19, -4>>,
      <<-19, -6>>, <<-18, -7>>, <<-17, -9>>, <<-17, -10>>, <<-16, -11>>,
      <<-15, -12>>, <<-14, -14>>, <<-12, -15>>, <<-11, -16>>, <<-10, -17>>,
      <<-9, -17>>, <<-7, -18>>, <<-6, -19>>, <<-4, -19>>, <<-3, -19>>,
      <<-1, -19>>, <<0, -20>>, <<1, -19>>, <<3, -19>>, <<4, -19>>,
      <<6, -19>>, <<7, -18>>, <<9, -17>>, <<10, -17>>, <<11, -16>>,
      <<12, -15>>, <<14, -14>>, <<15, -12>>, <<16, -11>>, <<17, -10>>,
      <<17, -9>>, <<18, -7>>, <<19, -6>>, <<19, -4>>, <<19, -3>>, <<19, -1>>
    >>

TenRings(step) ==
    Append(SpiralOffsets(step), IF step = 2 THEN TenthRing2 ELSE TenthRing16)

\* the first free sample of rings 1 to 10, the fallback when there is none
TenRingSearch(px, py, placed, radius) ==
    LET rings == TenRings(radius)
        Free(ring) == {n \in 1..Len(rings[ring]) :
                         ~has_collision(px + rings[ring][n][1], py + rings[ring][n][2],
                                        placed, radius)}
        open == {ring \in 1..Len(rings) : Free(ring) # {}}
    IN IF open = {} THEN Fallback(px, py, radius)
       ELSE LET ring == CHOOSE a \in open : \A b \in open : a <= b
                n == CHOOSE a \in Free(ring) : \A b \in Free(ring) : a <= b
            IN <<px + rings[ring][n][1], py + rings[ring][n][2]>>

C25_TenRingsThenFallback ==
    (Rendered /\ WellFormedConfig(cfg) /\ cfg.avoid_overlap) =>
        \A n \in 1..Len(out.placed) :
            LET px == out.unresolved[n][1]
                py == out.unresolved[n][2]
                found == TenRingSearch(px, py, Before(n), cfg.keyframe_radius)
            IN has_collision(px, py, Before(n), cfg.keyframe_radius) =>
                  Marker(n) = <<Clip(found[1]), Clip(found[2]), cfg.keyframe_radius>>

RoundMul(x, scale) ==
    LET t == TruncMul(IF x < 0 THEN 0 - x ELSE x, scale)
        quarter == (scale.den2 \div 4) + (IF scale.den2 % 4 = 0 THEN 0 ELSE 1)
        up == (t * t + t) * scale.den2 + quarter <= (scale.num * x) * (scale.num * x)
        n == IF up THEN t + 1 ELSE t
    IN IF x < 0 THEN 0 - n ELSE n

\* the layout displacement of a keyframe of the store
Displacement(frame_id) ==
    extract_displacement(
        compute_relative_pose(get_current_pose(all_poses),
                              DictGet(keyframe_poses, frame_id)).val).val

C27_PixelPositionRounded ==
    (Rendered /\ WellFormedConfig(cfg)) =>
        \A n \in 1..Len(out.placed) :
            LET d == Displacement(out.placed[n])
                center == cfg.image_size \div 2
            IN out.raw[n] = <<center + RoundMul(d[1], out.scale),
                              center + RoundMul(d[2], out.scale)>>

(***************************************************************************)
(* C28: the layout scale is 50 px/m when there is no keyframe or when the  *)
(* governing distance is (below 1e-6, here) zero, and otherwise            *)
(* usable_radius / D with usable_radius = (canvas_side - 2 * border) / 2   *)
(* - 10 and D the largest distance among the inliers (all keyframes when   *)
(* none is rejected); so no inlier's scaled displacement exceeds           *)
(* usable_radius and the outliers do not influence the scale.              *)
(***************************************************************************)
\* the squared distance of a keyframe from the current pose
DisplacementD2(frame_id) ==
    LET d == Displacement(frame_id) IN d[1] * d[1] + d[2] * d[2]

\* the keyframes of the render that were not rejected
Inliers == {out.laid_out[n] : n \in 1..Len(out.laid_out)} \ out.outlier_ids

UsableRadius == (cfg.image_size - 2 * cfg.border_size) \div 2 - 10

C28_ScaleFromInliers ==
    Rendered =>
        /\ Len(out.laid_out) = Len(keyframe_poses)
        /\ Inliers = {} => (keyframe_poses = << >> /\ out.scale = [num |-> 50, den2 |-> 1])
        /\ Inliers # {} =>
              LET D2 == CHOOSE m \in {DisplacementD2(f) : f \in Inliers} :
                            \A f \in Inliers : DisplacementD2(f) <= m
              IN /\ D2 = 0 => out.scale = [num |-> 50, den2 |-> 1]
                 /\ D2 # 0 =>
                       /\ out.scale = [num |-> UsableRadius, den2 |-> D2]
                       /\ \A f \in Inliers :
                             DisplacementD2(f) * out.scale.num * out.scale.num
                               <= UsableRadius * UsableRadius * out.scale.den2

\* a render with a rejected keyframe that is further away than the distance
\* the scale was computed from
C28_Witness ==
    /\ Rendered
    /\ \E f \in out.outlier_ids : DisplacementD2(f) > out.scale.den2
    /\ out.scale.num = UsableRadius
    /\ Cardinality(Inliers) >= 4

(***************************************************************************)
(* C29: after any sequence of add_frame and add_frame_with_pose calls,     *)
(* failed add_frame calls included, the ids of the all-frames map are      *)
(* exactly 0 .. counter - 1: a failed add_frame changes neither the map    *)
(* nor the counter, so the next successful add returns the id following    *)
(* the last stored one.                                                    *)
(***************************************************************************)
C29_IdsContiguous == DOMAIN all_poses = 0..(frame_count - 1)

(***************************************************************************)
(* C30: between two generate_map calls with only add_frame,                *)
(* add_frame_with_pose and promote_to_keyframe calls in between, every id  *)
(* that is a keyframe at both renders gets the same colour and the same    *)
(* 1-based label, ids promoted again included; the index of a keyframe     *)
(* changes only when a keyframe inserted before it is removed (or when it  *)
(* is removed itself).  Step by step: no call but remove_keyframe moves a  *)
(* keyframe to another index, an index only changes when an earlier        *)
(* keyframe leaves, and a render gives the keyframe at index n the label n *)
(* and the colour of n - 1.                                                *)
(***************************************************************************)
C30_StableColoursAndLabels ==
    [][/\ last'.op # "remove_keyframe" =>
             \A f \in KeySet(keyframe_poses) :
                 DictIndex(keyframe_poses', f) = DictIndex(keyframe_poses, f)
       /\ \A f \in KeySet(keyframe_poses) \cap KeySet(keyframe_poses') :
             DictIndex(keyframe_poses', f) # DictIndex(keyframe_poses, f) =>
                \E g \in KeySet(keyframe_poses) \ KeySet(keyframe_poses') :
                    DictIndex(keyframe_poses, g) < DictIndex(keyframe_poses, f)
       /\ (last'.op = "generate_map" /\ last'.status = "ok") =>
             /\ keyframe_poses' = keyframe_poses
             /\ Len(out'.placed) = Len(keyframe_poses)
             /\ \A f \in KeySet(keyframe_poses) :
                   LET n == DictIndex(keyframe_poses, f)
                   IN /\ out'.placed[n] = f
                      /\ out'.colors[n] = [id |-> f, color |-> ExpectedPalette[((n - 1) % 8) + 1]]
      ]_vars

\* a render of two keyframes, the one promoted first having the larger id
C30_Witness ==
    /\ Rendered
    /\ Len(out.placed) = 2
    /\ out.placed[1] > out.placed[2]
    /\ out.colors[1].color = ExpectedPalette[1]
    /\ out.colors[2].color = ExpectedPalette[2]

====
